---- MODULE Spec2Model ----
(***************************************************************************)
(* Model of the audio enhancement pipeline of inka-stage-prod.             *)
(*                                                                         *)
(* wb is the "Chain B" WebRTCAdvancedFilters object of                     *)
(* src/client/src/utils/webrtcFilters.ts:26-438, wp the                    *)
(* WebRTCAdvancedFilters object with live filter parameters of             *)
(* src/unnamed/part_003, af an AudioFilters object of                      *)
(* src/client/src/utils/audioFilters.ts, wl the WebRTCAdvancedFilters      *)
(* object with noise filter levels of webrtcFilters.ts:439-840.  Each      *)
(* record holds the object's                                               *)
(* fields together with the part of the Web Audio runtime it drives: the   *)
(* audio graph (edges), the tracks of the streams it acquired              *)
(* (liveTracks), its callbacks and the position of the one start call in   *)
(* flight (pc).  A behaviour follows one of the objects (engine).          *)
(*                                                                         *)
(* Units.  Energies (rms, thresholds, noise floor) are integers in         *)
(* millionths: 0.015 is 15000.  holdCounter is kept in ms * SampleRate, so *)
(* that "inputBuffer.length / sampleRate * 1000" is the exact integer      *)
(* BufferLength * 1000 and "holdCounter >= holdTime" is                    *)
(* holdCounter >= holdTime * SampleRate.  Gains are in hundredths, those   *)
(* of the part_003 gate in ten-thousandths.                                *)
(***************************************************************************)
EXTENDS Integers, Sequences, FiniteSets, TLC

\* ---- bounds of the model ------------------------------------------------
MaxStarts == 2
MaxPostFrames == 2
MaxGateTicks == 3
MaxLevelReads == 2
MaxUnderrunBlocks == 6
MaxHalfMinutes == 4

\* ---- program constants (webrtcFilters.ts, Chain B) ------------------------
SampleRate == 48000
BufferLength == 512
CalibrationWindowMs == 800
DefaultOpenThreshold == 15000
DefaultCloseThreshold == 9000
DefaultHoldTime == 250
DefaultLookAhead == 8
DefaultNoiseFloor == 15000
HighNoiseCutoff == 20000
LowNoiseCutoff == 5000
HighNoiseOpenCap == 25000
HighNoiseCloseCap == 15000
LowNoiseOpenFloor == 8000
LowNoiseCloseFloor == 4000
DefaultHighPassFrequency == 220
HighNoiseHighPassFrequency == 250
LowNoiseHighPassFrequency == 180
TrimCutoff == 15000
TrimDown == 90
TrimUp == 110
TrimDefault == 100

\* ---- program constants (audioFilters.ts), gains in hundredths --------------
AudioFiltersHighPass == 85
AudioFiltersGain == 100
LowGain == 120
MediumGain == 100
HighGain == 80

\* ---- program constants (part_003) -----------------------------------------
ParamsHighPassFreq == 150
\* Q values in tenths
ParamsHighPassQ == 12
ParamsSpeechGain == 3
ParamsNoiseGateThreshold == 15000
\* gains of the part_003 gate, in ten-thousandths
GateOpenGain == 10000
GateFloorGain == 200
SmoothingPercent == 15

\* band-limited energies the analyser can deliver to the gate callback
GateEnergies == {0, 9000, 12000, 15000, 30000}
\* full-band energies it can deliver to the calibration callback: the ambient
\* level is steady within one sampling window (see CalFrame)
CalEnergies == {0, 3000, 4000, 4500, 5000, 12000, 15000, 20000, 21000, 1000000}
\* the ambient levels followed when several start calls are followed
AmbientLevels == {0, 25000}
\* full-band levels an animation frame of the part_003 gate can read: the
\* default threshold itself and a level above it
FrameLevels == {15000, 20000}
\* the partial parameter records passed to updateFilterParams: the speech
\* gain slider moved to its minimum, 0 dB (AudioFilterControls.tsx:70,
\* 279-283), and the "noisy" preset (AudioFilterControls.tsx:46-59, 79)
ParamUpdates ==
  { [speechGain |-> 0],
    [highPassFreq |-> 220, highPassQ |-> 20, speechGain |-> 5,
     noiseGateThreshold |-> 25000] }
\* a record whose values lie outside the safe ranges: a cutoff below 20 Hz
\* and a negative Q
RangeUpdates == { [highPassFreq |-> 5, highPassQ |-> -10] }

\* the level names passed to getOptimizedStream and setNoiseLevel: the
\* quietest and the noisiest NoiseFilterLevel and a name that is none
LevelInputs == {"low", "aggressive", "extreme"}
\* the full-band level an animation frame of the level object's gate reads:
\* above the threshold of "low", below that of "aggressive"
LevelFrame == 15000

\* getUserMedia outcomes: a stream, NotAllowedError, OverconstrainedError
GumOutcomes == {"ok", "NotAllowedError", "OverconstrainedError"}

\* how the runtime dispatches audioprocess events: the Web Audio
\* recommendation dispatches while the ScriptProcessorNode has an input or an
\* output connected ("any"); Chromium only while its output reaches the
\* context's destination ("output")
DispatchRules == {"any", "output"}

\* engine: the filter object the behaviour follows; wb: the Chain B object
\* (webrtcFilters.ts:26-438); wp: the object with live filter parameters
\* (part_003); af: an AudioFilters object (audioFilters.ts); wl: the object
\* with noise filter levels (webrtcFilters.ts:439-840); srv: the call-limits
\* server with its call_logs and system_settings tables; nw: the AudioWorklet
\* noise gate of part_004; feed: the test signal
\* fed to a Chain B session, block by block, and what was observed of its gate
VARIABLES engine, wb, wp, af, wl, feed, srv, nw

vars == <<engine, wb, wp, af, wl, feed, srv, nw>>

Node(g, k) == <<g, k>>
CtxDestination == <<0, "destination">>

\* Array.prototype.indexOf: the zero-based position of x in seq, or -1
IndexOf(seq, x) ==
  IF \E j \in 1..Len(seq) : seq[j] = x
  THEN (CHOOSE j \in 1..Len(seq) : seq[j] = x /\ \A k \in 1..(j - 1) : seq[k] # x) - 1
  ELSE -1

Max(a, b) == IF a >= b THEN a ELSE b
Min(a, b) == IF a <= b THEN a ELSE b

\* Math.floor(800 / (512 / sampleRate * 1000))
TargetSamples == (CalibrationWindowMs * SampleRate) \div (BufferLength * 1000)

\* event.inputBuffer.length / sampleRate * 1000, in ms * SampleRate
FrameDuration == BufferLength * 1000

HoldLimit(gp) == gp.holdTime * SampleRate

NoCal == [node |-> 0, samples |-> 0, noiseSum |-> 0, first |-> 0]

\* no block of the test signal fed yet: blocks counts the audio blocks
\* dispatched, opens the Closed -> Open transitions seen, openedAt and
\* closedAt the block at which the gate last opened and last closed
NoFeed == [blocks |-> 0, opens |-> 0, openedAt |-> 0, closedAt |-> 0]

\* the object after "new WebRTCAdvancedFilters()"
InitB(rule, sp) ==
  [ audioContext |-> "suspended",
    sourceNode |-> 0, destinationNode |-> 0, filterChain |-> <<>>,
    originalStream |-> 0, isInitialized |-> FALSE,
    highPassFilter |-> 0, highPassFrequency |-> 0,
    notchFilter |-> 0, noiseGate |-> 0, noiseGateGain |-> 0,
    speechEnhancer |-> 0, lowPassFilter |-> 0, compressor |-> 0,
    limiter |-> 0, outputNormalizer |-> 0, outputGain |-> 0,
    delayNode |-> 0, analyser |-> 0, gateProcessor |-> 0,
    calibration |-> [noiseFloor |-> DefaultNoiseFloor, calibrated |-> FALSE],
    gateParams |-> [openThreshold |-> DefaultOpenThreshold,
                    closeThreshold |-> DefaultCloseThreshold,
                    holdTime |-> DefaultHoldTime,
                    lookAhead |-> DefaultLookAhead,
                    isOpen |-> FALSE, holdCounter |-> 0],
    \* runtime
    dispatch |-> rule, hasScriptProcessor |-> sp,
    edges |-> {}, gateHandlers |-> {}, cal |-> NoCal,
    nStreams |-> 0, liveTracks |-> {}, gen |-> 0,
    \* the initializeWebRTCStream call in flight
    pc |-> "idle", path |-> "none", result |-> "none", error |-> "none",
    starts |-> 0, threw |-> FALSE,
    \* history
    stopped |-> FALSE, everStopped |-> FALSE, afterStop |-> FALSE,
    lowRun |-> 0, closes |-> 0, flutters |-> 0, calCompletions |-> 0 ]

\* ---- Chain B: graph construction -----------------------------------------

\* setupNoiseGate (webrtcFilters.ts:164-181)
setupNoiseGate(s) ==
  LET g == s.gen IN
  [s EXCEPT !.analyser = g,
            !.noiseGate = g,
            !.noiseGateGain = 0,
            !.gateProcessor = IF s.hasScriptProcessor THEN g ELSE @,
            !.gateHandlers = IF s.hasScriptProcessor THEN @ \cup {g} ELSE @]

\* connectFilterChain (webrtcFilters.ts:235-257)
connectFilterChain(s) ==
  IF s.sourceNode = 0 \/ s.destinationNode = 0 \/ Len(s.filterChain) = 0
  THEN s
  ELSE LET fc == s.filterChain
           chain == {<<Node(s.sourceNode, "sourceNode"), fc[1]>>}
                    \cup {<<fc[i], fc[i + 1]>> : i \in 1..(Len(fc) - 1)}
           tap == IF s.delayNode # 0 /\ s.analyser # 0 /\ s.gateProcessor # 0
                  THEN {<<Node(s.delayNode, "delayNode"), Node(s.analyser, "analyser")>>,
                        <<Node(s.analyser, "analyser"), Node(s.gateProcessor, "gateProcessor")>>,
                        <<Node(s.gateProcessor, "gateProcessor"), CtxDestination>>}
                  ELSE {}
           out == {<<fc[Len(fc)], Node(s.destinationNode, "destinationNode")>>}
       IN [s EXCEPT !.edges = @ \cup chain \cup tap \cup out]

\* createAdvancedFilterChain (webrtcFilters.ts:91-162)
createAdvancedFilterChain(s) ==
  IF s.sourceNode = 0 THEN s
  ELSE LET g == s.gen
           s1 == [s EXCEPT !.filterChain = <<>>,
                           !.highPassFilter = g,
                           !.highPassFrequency = DefaultHighPassFrequency,
                           !.notchFilter = g,
                           !.delayNode = g]
           s2 == setupNoiseGate(s1)
           s3 == [s2 EXCEPT !.speechEnhancer = g, !.lowPassFilter = g,
                            !.compressor = g, !.limiter = g,
                            !.outputNormalizer = g, !.outputGain = TrimDefault,
                            !.filterChain =
                               <<Node(g, "highPassFilter"), Node(g, "notchFilter"),
                                 Node(g, "delayNode")>>
                               \o (IF s2.noiseGate # 0 THEN <<Node(g, "noiseGate")>> ELSE <<>>)
                               \o <<Node(g, "speechEnhancer"), Node(g, "lowPassFilter"),
                                    Node(g, "compressor"), Node(g, "limiter"),
                                    Node(g, "outputNormalizer")>>]
       IN connectFilterChain(s3)

\* ---- Chain B: the noise gate ---------------------------------------------

\* processNoiseGate closing as soon as the signal drops (no hold time)
processNoiseGateNoHold(s, e) ==
  IF s.analyser = 0 THEN s
  ELSE LET gp == s.gateParams
           threshold == IF gp.isOpen THEN gp.closeThreshold ELSE gp.openThreshold
       IN IF e > threshold /\ ~gp.isOpen
          THEN [s EXCEPT !.gateParams.isOpen = TRUE, !.gateParams.holdCounter = 0,
                         !.noiseGateGain = IF s.noiseGate # 0 THEN 100 ELSE @]
          ELSE IF e <= threshold /\ gp.isOpen
          THEN [s EXCEPT !.gateParams.isOpen = FALSE, !.gateParams.holdCounter = 0,
                         !.noiseGateGain = IF s.noiseGate # 0 THEN 0 ELSE @]
          ELSE IF gp.isOpen /\ e > threshold
          THEN [s EXCEPT !.gateParams.holdCounter = 0]
          ELSE s

\* processNoiseGate without its last branch: the hold counter is not reset
\* when the signal returns above closeThreshold
processNoiseGateNoReset(s, e) ==
  IF s.analyser = 0 THEN s
  ELSE LET gp == s.gateParams
           threshold == IF gp.isOpen THEN gp.closeThreshold ELSE gp.openThreshold
       IN IF e > threshold /\ ~gp.isOpen
          THEN [s EXCEPT !.gateParams.isOpen = TRUE, !.gateParams.holdCounter = 0,
                         !.noiseGateGain = IF s.noiseGate # 0 THEN 100 ELSE @]
          ELSE IF e <= threshold /\ gp.isOpen
          THEN LET hc == gp.holdCounter + FrameDuration
               IN IF hc >= HoldLimit(gp)
                  THEN [s EXCEPT !.gateParams.isOpen = FALSE, !.gateParams.holdCounter = 0,
                                 !.noiseGateGain = IF s.noiseGate # 0 THEN 0 ELSE @]
                  ELSE [s EXCEPT !.gateParams.holdCounter = hc]
          ELSE s

\* processNoiseGate comparing with closeThreshold in both states
processNoiseGateOneThreshold(s, e) ==
  IF s.analyser = 0 THEN s
  ELSE LET gp == s.gateParams
           threshold == gp.closeThreshold
       IN IF e > threshold /\ ~gp.isOpen
          THEN [s EXCEPT !.gateParams.isOpen = TRUE, !.gateParams.holdCounter = 0,
                         !.noiseGateGain = IF s.noiseGate # 0 THEN 100 ELSE @]
          ELSE IF e <= threshold /\ gp.isOpen
          THEN LET hc == gp.holdCounter + FrameDuration
               IN IF hc >= HoldLimit(gp)
                  THEN [s EXCEPT !.gateParams.isOpen = FALSE, !.gateParams.holdCounter = 0,
                                 !.noiseGateGain = IF s.noiseGate # 0 THEN 0 ELSE @]
                  ELSE [s EXCEPT !.gateParams.holdCounter = hc]
          ELSE IF gp.isOpen /\ e > threshold
          THEN [s EXCEPT !.gateParams.holdCounter = 0]
          ELSE s

\* the same handler leaving the hold counter as it is when it closes the gate
processNoiseGateKeepCounter(s, e) ==
  IF s.analyser = 0 THEN s
  ELSE LET gp == s.gateParams
           currentlyOpen == gp.isOpen
           threshold == IF currentlyOpen THEN gp.closeThreshold ELSE gp.openThreshold
       IN IF e > threshold /\ ~currentlyOpen
          THEN [s EXCEPT !.gateParams.isOpen = TRUE,
                         !.gateParams.holdCounter = 0,
                         !.noiseGateGain = IF s.noiseGate # 0 THEN 100 ELSE @]
          ELSE IF e <= threshold /\ currentlyOpen
          THEN LET hc == gp.holdCounter + FrameDuration
               IN IF hc >= HoldLimit(gp)
                  THEN [s EXCEPT !.gateParams.isOpen = FALSE,
                                 !.gateParams.holdCounter = hc,
                                 !.noiseGateGain = IF s.noiseGate # 0 THEN 0 ELSE @]
                  ELSE [s EXCEPT !.gateParams.holdCounter = hc]
          ELSE IF currentlyOpen /\ e > threshold
          THEN [s EXCEPT !.gateParams.holdCounter = 0]
          ELSE s

\* processNoiseGate (webrtcFilters.ts:183-233); e is the band-limited rms
processNoiseGate(s, e) ==
  IF s.analyser = 0 THEN s
  ELSE LET gp == s.gateParams
           currentlyOpen == gp.isOpen
           threshold == IF currentlyOpen THEN gp.closeThreshold ELSE gp.openThreshold
       IN IF e > threshold /\ ~currentlyOpen
          THEN [s EXCEPT !.gateParams.isOpen = TRUE,
                         !.gateParams.holdCounter = 0,
                         !.noiseGateGain = IF s.noiseGate # 0 THEN 100 ELSE @]
          ELSE IF e <= threshold /\ currentlyOpen
          THEN LET hc == gp.holdCounter + FrameDuration
               IN IF hc >= HoldLimit(gp)
                  THEN [s EXCEPT !.gateParams.isOpen = FALSE,
                                 !.gateParams.holdCounter = 0,
                                 !.noiseGateGain = IF s.noiseGate # 0 THEN 0 ELSE @]
                  ELSE [s EXCEPT !.gateParams.holdCounter = hc]
          ELSE IF currentlyOpen /\ e > threshold
          THEN [s EXCEPT !.gateParams.holdCounter = 0]
          ELSE s

\* whether the runtime dispatches audioprocess to script processor n
Fires(s, n) ==
  /\ s.audioContext \in {"running", "closing"}
  /\ IF s.dispatch = "output"
     THEN <<n, CtxDestination>> \in s.edges
     ELSE \E c \in s.edges : c[1] = n \/ c[2] = n

\* history of the gate trace: lowRun is the time the gate has spent Open in
\* the current run of frames whose energy was <= closeThreshold (it stops
\* growing once the gate is Closed and is cleared by the first frame above
\* closeThreshold), closes the Open -> Closed transitions in that run,
\* flutters is 1 after a frame above closeThreshold that cut such a run short
\* while the gate was Open
TrackRun(s, e, t) ==
  LET low == e <= s.gateParams.closeThreshold
      closed == s.gateParams.isOpen /\ ~t.gateParams.isOpen
  IN [t EXCEPT !.lowRun = IF ~low THEN 0
                          ELSE IF s.gateParams.isOpen THEN s.lowRun + FrameDuration
                          ELSE s.lowRun,
               !.closes = IF ~low THEN 0
                          ELSE IF closed THEN Min(s.closes + 1, 2) ELSE s.closes,
               !.flutters = IF ~low /\ s.gateParams.isOpen /\ s.lowRun > 0
                            THEN 1 ELSE 0]

\* some gate processor's audioprocess event can be dispatched
GateFires ==
  \E g \in wb.gateHandlers : Fires(wb, Node(g, "gateProcessor"))

\* the object after one audioprocess event of a gate processor
AfterGateFrame(e) == TrackRun(wb, e, processNoiseGate(wb, e))

GateFrame(e) ==
  /\ engine = "chainB"
  /\ GateFires
  /\ wb' = AfterGateFrame(e)
  /\ UNCHANGED <<engine, wp, af, wl, feed, srv, nw>>

\* ---- Chain B: start ------------------------------------------------------

\* an exception inside initializeWebRTCStream (webrtcFilters.ts:352-370): in
\* the try block it is caught and the fallback getUserMedia is requested, in
\* the catch block it rejects the call
StartThrows(s, err) ==
  IF s.path = "try"
  THEN [s EXCEPT !.pc = "gum2", !.path = "fallback"]
  ELSE [s EXCEPT !.pc = "idle", !.path = "none", !.result = "rejected", !.error = err]

\* the end of applyAdvancedFiltering and the return of getProcessedStream
\* (webrtcFilters.ts:386-398, 350, 369)
StartReturns(s) ==
  LET s1 == [s EXCEPT !.isInitialized = TRUE]
  IN IF s1.destinationNode = 0
     THEN StartThrows(s1, "Filter chain not initialized")
     ELSE [s1 EXCEPT !.pc = "idle", !.path = "none", !.result = "processed"]

\* initializeWebRTCStream up to its first await (webrtcFilters.ts:329-346)
initializeWebRTCStream(s) ==
  [s EXCEPT !.pc = "gum1", !.path = "try", !.result = "pending", !.error = "none",
            !.starts = @ + 1, !.stopped = FALSE, !.afterStop = s.everStopped]

\* getUserMedia settles, then applyAdvancedFiltering up to its await of
\* audioContext.resume() (webrtcFilters.ts:346-349, 365-368, 373-376)
streamAcquired(s, outcome) ==
  IF outcome = "ok"
  THEN [s EXCEPT !.nStreams = @ + 1, !.originalStream = s.nStreams + 1,
                 !.liveTracks = @ \cup {s.nStreams + 1}, !.pc = "resume"]
  ELSE StartThrows(s, outcome)

\* performAutoCalibration up to the promise it returns (webrtcFilters.ts:259-327)
performAutoCalibration(s) ==
  IF s.analyser = 0 \/ s.calibration.calibrated
  THEN StartReturns(s)
  ELSE IF ~s.hasScriptProcessor
  THEN StartThrows(s, "TypeError")
  ELSE LET n == Node(s.gen, "calibrationProcessor")
       IN [s EXCEPT !.cal = [NoCal EXCEPT !.node = s.gen],
                    !.edges = IF s.sourceNode # 0
                              THEN @ \cup {<<Node(s.sourceNode, "sourceNode"), n>>,
                                           <<n, CtxDestination>>}
                              ELSE @,
                    !.pc = "calibrating", !.path = "none"]

\* applyAdvancedFiltering after audioContext.resume() settled
\* (webrtcFilters.ts:376-384): resume() rejects on a context that close()
\* was called on
applyAdvancedFiltering(s) ==
  IF s.audioContext \in {"closing", "closed"}
  THEN StartThrows(s, "InvalidStateError")
  ELSE LET g == s.gen + 1
           s1 == [s EXCEPT !.audioContext = "running", !.gen = g,
                           !.sourceNode = g, !.destinationNode = g]
       IN performAutoCalibration(createAdvancedFilterChain(s1))

\* ---- Chain B: calibration callback ---------------------------------------

\* calibrationComplete with the two high-pass cutoffs exchanged
calibrationCompleteSwapped(s, avgNoiseFloor) ==
  LET n == Node(s.cal.node, "calibrationProcessor")
      s1 == [s EXCEPT !.calibration.noiseFloor = avgNoiseFloor,
                      !.calibration.calibrated = TRUE]
      s2 == IF avgNoiseFloor > HighNoiseCutoff
            THEN [s1 EXCEPT
                    !.gateParams.openThreshold = Min(HighNoiseOpenCap, (avgNoiseFloor * 15) \div 10),
                    !.gateParams.closeThreshold = Min(HighNoiseCloseCap, (avgNoiseFloor * 12) \div 10),
                    !.highPassFrequency = IF s.highPassFilter # 0
                                          THEN LowNoiseHighPassFrequency ELSE @]
            ELSE IF avgNoiseFloor < LowNoiseCutoff
            THEN [s1 EXCEPT
                    !.gateParams.openThreshold = Max(LowNoiseOpenFloor, avgNoiseFloor * 2),
                    !.gateParams.closeThreshold = Max(LowNoiseCloseFloor, (avgNoiseFloor * 15) \div 10),
                    !.highPassFrequency = IF s.highPassFilter # 0
                                          THEN HighNoiseHighPassFrequency ELSE @]
            ELSE s1
      s3 == [s2 EXCEPT !.outputGain = IF s.outputNormalizer # 0
                                      THEN (IF avgNoiseFloor > TrimCutoff THEN TrimDown ELSE TrimUp)
                                      ELSE @,
                       !.edges = {c \in @ : c[1] # n},
                       !.calCompletions = Min(@ + 1, 2)]
  IN IF s3.pc = "calibrating" THEN StartReturns(s3) ELSE s3

\* the body of "if (samples >= targetSamples)" (webrtcFilters.ts:286-319)
calibrationComplete(s, avgNoiseFloor) ==
  LET n == Node(s.cal.node, "calibrationProcessor")
      s1 == [s EXCEPT !.calibration.noiseFloor = avgNoiseFloor,
                      !.calibration.calibrated = TRUE]
      s2 == IF avgNoiseFloor > HighNoiseCutoff
            THEN [s1 EXCEPT
                    !.gateParams.openThreshold = Min(HighNoiseOpenCap, (avgNoiseFloor * 15) \div 10),
                    !.gateParams.closeThreshold = Min(HighNoiseCloseCap, (avgNoiseFloor * 12) \div 10),
                    !.highPassFrequency = IF s.highPassFilter # 0
                                          THEN HighNoiseHighPassFrequency ELSE @]
            ELSE IF avgNoiseFloor < LowNoiseCutoff
            THEN [s1 EXCEPT
                    !.gateParams.openThreshold = Max(LowNoiseOpenFloor, avgNoiseFloor * 2),
                    !.gateParams.closeThreshold = Max(LowNoiseCloseFloor, (avgNoiseFloor * 15) \div 10),
                    !.highPassFrequency = IF s.highPassFilter # 0
                                          THEN LowNoiseHighPassFrequency ELSE @]
            ELSE s1
      s3 == [s2 EXCEPT !.outputGain = IF s.outputNormalizer # 0
                                      THEN (IF avgNoiseFloor > TrimCutoff THEN TrimDown ELSE TrimUp)
                                      ELSE @,
                       !.edges = {c \in @ : c[1] # n},
                       !.calCompletions = Min(@ + 1, 2)]
  IN IF s3.pc = "calibrating" THEN StartReturns(s3) ELSE s3

\* calibrationProcessor.onaudioprocess (webrtcFilters.ts:271-320); e is the
\* full-band rms
calibrationProcessor(s, e) ==
  LET samples == s.cal.samples + 1
      noiseSum == s.cal.noiseSum + e
      s1 == [s EXCEPT !.cal.samples = samples, !.cal.noiseSum = noiseSum,
                      !.cal.first = IF s.cal.samples = 0 THEN e ELSE @]
  IN IF samples >= TargetSamples
     THEN calibrationComplete(s1, noiseSum \div samples)
     ELSE s1

\* ---- Chain B: teardown ---------------------------------------------------

\* destroy (webrtcFilters.ts:409-434)
destroy(s) ==
  LET chainNodes == {s.filterChain[i] : i \in 1..Len(s.filterChain)}
      e1 == {c \in s.edges : c[1] \notin chainNodes}
      e2 == IF s.gateProcessor # 0
            THEN {c \in e1 : c[1] # Node(s.gateProcessor, "gateProcessor")}
            ELSE e1
  IN [s EXCEPT !.edges = e2,
               !.gateProcessor = 0,
               !.liveTracks = IF s.originalStream # 0 THEN @ \ {s.originalStream} ELSE @,
               !.originalStream = 0,
               !.audioContext = IF @ \in {"suspended", "running"} THEN "closing" ELSE @,
               !.isInitialized = FALSE,
               !.threw = FALSE,
               !.stopped = TRUE, !.everStopped = TRUE]

\* ---- the object with live filter parameters (part_003) -------------------

\* the object after "new WebRTCAdvancedFilters()" (part_003:45-84); onClosed
\* is what createMediaStreamSource does on a context that was closed: the
\* recommendation allows it, some runtimes throw InvalidStateError
InitP(onClosed) ==
  [ audioContext |-> "suspended",
    sourceNode |-> 0, destinationNode |-> 0, filterChain |-> <<>>,
    originalStream |-> 0, isInitialized |-> FALSE,
    compressor |-> 0, highPassFilter |-> 0, lowPassFilter |-> 0,
    notchFilter |-> 0, speechEnhancer |-> 0, noiseGate |-> 0, limiter |-> 0,
    isProcessing |-> FALSE,
    filterParams |-> [highPassFreq |-> ParamsHighPassFreq,
                      highPassQ |-> ParamsHighPassQ,
                      speechGain |-> ParamsSpeechGain,
                      noiseGateThreshold |-> ParamsNoiseGateThreshold],
    \* AudioParam values of the nodes
    highPassFrequency |-> 0, highPassQ |-> 0, speechEnhancerGain |-> 0,
    noiseGateGain |-> 0,
    \* runtime
    createOnClosed |-> onClosed,
    edges |-> {}, loops |-> {}, nStreams |-> 0, liveTracks |-> {}, gen |-> 0,
    \* the getOptimizedStream call in flight
    pc |-> "idle", result |-> "none", starts |-> 0, threw |-> FALSE,
    \* history
    stopped |-> FALSE, ticks |-> 0 ]

\* createAdvancedFilterChain (part_003:112-171)
createAdvancedFilterChainP(s) ==
  LET g == s.gen IN
  [s EXCEPT !.highPassFilter = g, !.highPassFrequency = s.filterParams.highPassFreq,
            !.highPassQ = s.filterParams.highPassQ,
            !.notchFilter = g,
            !.speechEnhancer = g, !.speechEnhancerGain = s.filterParams.speechGain,
            !.lowPassFilter = g, !.compressor = g,
            !.noiseGate = g, !.noiseGateGain = GateOpenGain,
            !.limiter = g,
            !.filterChain = <<Node(g, "highPassFilter"), Node(g, "notchFilter"),
                              Node(g, "speechEnhancer"), Node(g, "lowPassFilter"),
                              Node(g, "compressor"), Node(g, "noiseGate"),
                              Node(g, "limiter")>>]

\* connectFilterChain (part_003:173-192)
connectFilterChainP(s) ==
  IF s.sourceNode = 0 \/ s.destinationNode = 0 \/ Len(s.filterChain) = 0
  THEN s
  ELSE LET fc == s.filterChain
       IN [s EXCEPT !.edges = @ \cup {<<Node(s.sourceNode, "sourceNode"), fc[1]>>}
                                 \cup {<<fc[i], fc[i + 1]>> : i \in 1..(Len(fc) - 1)}
                                 \cup {<<fc[Len(fc)], Node(s.destinationNode, "destinationNode")>>}]

\* the gate's decision (part_003:224)
targetGain(s, rms) ==
  IF rms > s.filterParams.noiseGateThreshold THEN GateOpenGain ELSE GateFloorGain

\* the level a gate at its floor gain must exceed to be driven to unity, and
\* the level at or below which a gate at unity is driven to the floor: the
\* one comparison of part_003:224 decides both
openThresholdP(s) == s.filterParams.noiseGateThreshold
closeThresholdP(s) == s.filterParams.noiseGateThreshold

\* one run of the processGate closure created by start g (part_003:211-231)
processGate(s, g, rms) ==
  IF ~s.isProcessing
  THEN [s EXCEPT !.loops = @ \ {g}]
  ELSE LET currentGain == s.noiseGateGain
           smoothGain == currentGain
                         + ((targetGain(s, rms) - currentGain) * SmoothingPercent) \div 100
       IN [s EXCEPT !.noiseGateGain = smoothGain, !.loops = @ \cup {g},
                    !.ticks = @ + 1]

\* startNoiseGateProcessor (part_003:194-236): the first processGate run is
\* synchronous and reads an analyser that has no data yet
startNoiseGateProcessor(s) ==
  IF s.noiseGate = 0
  THEN s
  ELSE LET analyzerIndex == IndexOf(s.filterChain, Node(s.noiseGate, "noiseGate"))
           s1 == IF analyzerIndex > 0
                 THEN [s EXCEPT !.edges = @ \cup {<<s.filterChain[analyzerIndex],
                                                     Node(s.gen, "analyzer")>>}]
                 ELSE s
       IN processGate([s1 EXCEPT !.isProcessing = TRUE], s.gen, 0)

\* getOptimizedStream from the creation of the source node to its return
\* (part_003:267-284); an exception is caught and the fallback getUserMedia
\* is requested (part_003:286-297)
buildGraph(s) ==
  IF s.audioContext \in {"closing", "closed"} /\ s.createOnClosed = "throws"
  THEN [s EXCEPT !.pc = "gum2"]
  ELSE LET g == s.gen + 1
           s1 == [s EXCEPT !.gen = g, !.sourceNode = g, !.destinationNode = g]
           s2 == startNoiseGateProcessor(connectFilterChainP(createAdvancedFilterChainP(s1)))
       IN [s2 EXCEPT !.isInitialized = TRUE, !.pc = "idle", !.result = "processed"]

\* getOptimizedStream up to its first await (part_003:238-260)
getOptimizedStream(s) ==
  [s EXCEPT !.pc = "gum1", !.result = "pending", !.starts = @ + 1, !.stopped = FALSE]

\* the first getUserMedia settles (part_003:245-265)
streamAcquiredP(s, outcome) ==
  IF outcome # "ok"
  THEN [s EXCEPT !.pc = "gum2"]
  ELSE LET s1 == [s EXCEPT !.nStreams = @ + 1, !.originalStream = s.nStreams + 1,
                           !.liveTracks = @ \cup {s.nStreams + 1}]
       IN IF s1.audioContext = "suspended"
          THEN [s1 EXCEPT !.pc = "resume"]
          ELSE buildGraph(s1)

\* audioContext.resume() settles (part_003:263-265): it rejects on a context
\* that close() was called on
contextResumed(s) ==
  IF s.audioContext \in {"closing", "closed"}
  THEN [s EXCEPT !.pc = "gum2"]
  ELSE buildGraph([s EXCEPT !.audioContext = "running"])

\* the fallback getUserMedia settles (part_003:289-296): its stream is
\* returned as it is and kept nowhere
fallbackAcquired(s, outcome) ==
  IF outcome = "ok"
  THEN [s EXCEPT !.nStreams = @ + 1, !.liveTracks = @ \cup {s.nStreams + 1},
                 !.pc = "idle", !.result = "raw"]
  ELSE [s EXCEPT !.pc = "idle", !.result = "rejected"]

\* Object.assign(target, params)
ObjectAssign(target, params) ==
  [k \in DOMAIN target |-> IF k \in DOMAIN params THEN params[k] ELSE target[k]]

\* "node && params.k": the key is present and its value is not falsy
Truthy(params, k) == k \in DOMAIN params /\ params[k] # 0

\* updateFilterParams (part_003:304-345)
updateFilterParams(s, params) ==
  LET s1 == [s EXCEPT !.filterParams = ObjectAssign(@, params), !.threw = FALSE]
  IN IF ~s.isInitialized
     THEN s1
     ELSE [s1 EXCEPT
             !.highPassFrequency = IF s.highPassFilter # 0 /\ Truthy(params, "highPassFreq")
                                   THEN params.highPassFreq ELSE @,
             !.highPassQ = IF s.highPassFilter # 0 /\ Truthy(params, "highPassQ")
                           THEN params.highPassQ ELSE @,
             !.speechEnhancerGain = IF s.speechEnhancer # 0 /\ Truthy(params, "speechGain")
                                    THEN params.speechGain ELSE @]

\* cleanup (part_003:349-366)
cleanup(s) ==
  [s EXCEPT !.isProcessing = FALSE,
            !.liveTracks = IF s.originalStream # 0 THEN @ \ {s.originalStream} ELSE @,
            !.audioContext = IF @ \in {"suspended", "running"} THEN "closing" ELSE @,
            !.sourceNode = 0, !.destinationNode = 0, !.filterChain = <<>>,
            !.isInitialized = FALSE,
            !.threw = FALSE, !.stopped = TRUE]

\* ---- part_003: actions ---------------------------------------------------

GetOptimizedStream ==
  /\ engine = "params"
  /\ wp.starts < MaxStarts
  /\ wp.pc = "idle"
  /\ wp' = getOptimizedStream(wp)
  /\ UNCHANGED <<engine, wb, af, wl, feed, srv, nw>>

GetUserMediaP(outcome) ==
  /\ engine = "params"
  /\ wp.pc \in {"gum1", "gum2"}
  /\ wp' = IF wp.pc = "gum1" THEN streamAcquiredP(wp, outcome)
                             ELSE fallbackAcquired(wp, outcome)
  /\ UNCHANGED <<engine, wb, af, wl, feed, srv, nw>>

ResumeP ==
  /\ engine = "params"
  /\ wp.pc = "resume"
  /\ wp' = contextResumed(wp)
  /\ UNCHANGED <<engine, wb, af, wl, feed, srv, nw>>

\* an animation frame runs the processGate closure of start g
AnimationFrame(g, rms) ==
  /\ engine = "params"
  /\ g \in wp.loops
  /\ wp.isProcessing => wp.ticks < MaxGateTicks
  /\ wp' = processGate(wp, g, rms)
  /\ UNCHANGED <<engine, wb, af, wl, feed, srv, nw>>

UpdateFilterParams(params) ==
  /\ engine = "params"
  /\ wp' = updateFilterParams(wp, params)
  /\ UNCHANGED <<engine, wb, af, wl, feed, srv, nw>>

Cleanup ==
  /\ engine = "params"
  /\ wp' = cleanup(wp)
  /\ UNCHANGED <<engine, wb, af, wl, feed, srv, nw>>

ContextClosedP ==
  /\ engine = "params"
  /\ wp.audioContext = "closing"
  /\ wp' = [wp EXCEPT !.audioContext = "closed"]
  /\ UNCHANGED <<engine, wb, af, wl, feed, srv, nw>>

\* ---- AudioFilters (audioFilters.ts) --------------------------------------

\* the object after "new AudioFilters()" (audioFilters.ts:2-12)
InitAF(sp) ==
  [ audioContext |-> "null", mediaStream |-> 0,
    sourceNode |-> 0, noiseGateNode |-> 0, gainNode |-> 0, filterNode |-> 0,
    compressorNode |-> 0, destinationNode |-> 0,
    \* AudioParam values of the nodes
    gainValue |-> 0, filterFrequency |-> 0,
    \* runtime
    hasScriptProcessor |-> sp,
    edges |-> {}, nStreams |-> 0, liveTracks |-> {}, gen |-> 0, analysers |-> 0,
    \* the getFilteredMicrophoneStream call in flight
    pc |-> "idle", result |-> "none", starts |-> 0, threw |-> FALSE,
    \* history
    stopped |-> FALSE ]

\* addNoiseGate (audioFilters.ts:104-136): without createScriptProcessor the
\* TypeError is caught inside
addNoiseGate(s) ==
  IF s.hasScriptProcessor THEN [s EXCEPT !.noiseGateNode = s.gen] ELSE s

\* connectAudioChain (audioFilters.ts:141-174)
connectAudioChain(s) ==
  IF s.sourceNode = 0 \/ s.destinationNode = 0
  THEN s
  ELSE LET stages == <<<<s.filterNode, "filterNode">>, <<s.noiseGateNode, "noiseGateNode">>,
                       <<s.compressorNode, "compressorNode">>, <<s.gainNode, "gainNode">>>>
           present == SelectSeq(stages, LAMBDA st : st[1] # 0)
           path == <<Node(s.sourceNode, "sourceNode")>>
                   \o [i \in 1..Len(present) |-> Node(present[i][1], present[i][2])]
                   \o <<Node(s.destinationNode, "destinationNode")>>
       IN [s EXCEPT !.edges = @ \cup {<<path[i], path[i + 1]>> : i \in 1..(Len(path) - 1)}]

\* getFilteredMicrophoneStream up to its first await (audioFilters.ts:29-42)
getFilteredMicrophoneStream(s) ==
  [s EXCEPT !.pc = "gum1", !.result = "pending", !.starts = @ + 1, !.stopped = FALSE]

\* applyAdvancedFilters after initializeAudioContext returned
\* (audioFilters.ts:63-98)
applyAdvancedFilters(s) ==
  LET g == s.gen + 1
      s1 == [s EXCEPT !.gen = g,
                      !.sourceNode = g, !.gainNode = g, !.filterNode = g,
                      !.compressorNode = g, !.destinationNode = g,
                      !.filterFrequency = AudioFiltersHighPass,
                      !.gainValue = AudioFiltersGain]
      s2 == connectAudioChain(addNoiseGate(s1))
  IN [s2 EXCEPT !.pc = "idle", !.result = "processed"]

\* getUserMedia settles (audioFilters.ts:32-56): the first stream goes to
\* applyAdvancedFilters, which awaits resume() on the context that
\* initializeAudioContext creates when the object has none
\* (audioFilters.ts:14-24); the fallback stream is returned as it is
streamAcquiredAF(s, outcome) ==
  IF s.pc = "gum2"
  THEN IF outcome = "ok"
       THEN [s EXCEPT !.nStreams = @ + 1, !.liveTracks = @ \cup {s.nStreams + 1},
                      !.pc = "idle", !.result = "raw"]
       ELSE [s EXCEPT !.pc = "idle", !.result = "rejected"]
  ELSE IF outcome # "ok"
  THEN [s EXCEPT !.pc = "gum2"]
  ELSE LET s1 == [s EXCEPT !.nStreams = @ + 1, !.liveTracks = @ \cup {s.nStreams + 1}]
       IN IF s1.audioContext = "null"
          THEN [s1 EXCEPT !.audioContext = "suspended", !.pc = "resume"]
          ELSE applyAdvancedFilters(s1)

\* resume() settles (audioFilters.ts:19-21): it rejects when dispose closed
\* the context in the meantime, and the catch block requests the fallback
initializeAudioContext(s) ==
  IF s.audioContext = "null"
  THEN [s EXCEPT !.pc = "gum2"]
  ELSE applyAdvancedFilters([s EXCEPT !.audioContext = "running"])

\* adjustNoiseSensitivity (audioFilters.ts:179-192)
adjustNoiseSensitivity(s, level) ==
  IF s.gainNode = 0
  THEN s
  ELSE [s EXCEPT !.gainValue = CASE level = "low" -> LowGain
                                 [] level = "medium" -> MediumGain
                                 [] level = "high" -> HighGain]

\* getAudioLevel (audioFilters.ts:197-219): every call creates an analyser and
\* connects the gain node to it
getAudioLevel(s) ==
  IF s.audioContext = "null" \/ s.gainNode = 0
  THEN s
  ELSE [s EXCEPT !.analysers = @ + 1,
                 !.edges = @ \cup {<<Node(s.gainNode, "gainNode"),
                                     <<s.analysers + 1, "levelAnalyser">>>>}]

\* dispose without its null checks
disposeUnguarded(s) ==
  IF s.sourceNode = 0 \/ s.audioContext = "null"
  THEN [s EXCEPT !.threw = TRUE]
  ELSE [s EXCEPT !.edges = {}, !.sourceNode = 0, !.noiseGateNode = 0, !.gainNode = 0,
                 !.filterNode = 0, !.compressorNode = 0, !.destinationNode = 0,
                 !.audioContext = "null", !.threw = FALSE, !.stopped = TRUE]

\* dispose (audioFilters.ts:224-266); mediaStream is assigned nowhere, so no
\* track is stopped
dispose(s) ==
  LET own == {Node(s.sourceNode, "sourceNode"), Node(s.noiseGateNode, "noiseGateNode"),
              Node(s.gainNode, "gainNode"), Node(s.filterNode, "filterNode"),
              Node(s.compressorNode, "compressorNode"),
              Node(s.destinationNode, "destinationNode")}
      held == {n \in own : n[1] # 0}
  IN [s EXCEPT !.edges = {c \in @ : c[1] \notin held},
               !.sourceNode = 0, !.noiseGateNode = 0, !.gainNode = 0,
               !.filterNode = 0, !.compressorNode = 0, !.destinationNode = 0,
               !.liveTracks = IF s.mediaStream # 0 THEN @ \ {s.mediaStream} ELSE @,
               !.mediaStream = 0,
               !.audioContext = "null",
               !.threw = FALSE, !.stopped = TRUE]

\* ---- AudioFilters: actions -----------------------------------------------

GetFilteredMicrophoneStream ==
  /\ engine = "audioFilters"
  /\ af.starts < MaxStarts
  /\ af.pc = "idle"
  /\ af' = getFilteredMicrophoneStream(af)
  /\ UNCHANGED <<engine, wb, wp, wl, feed, srv, nw>>

GetUserMediaAF(outcome) ==
  /\ engine = "audioFilters"
  /\ af.pc \in {"gum1", "gum2"}
  /\ af' = streamAcquiredAF(af, outcome)
  /\ UNCHANGED <<engine, wb, wp, wl, feed, srv, nw>>

ResumeAF ==
  /\ engine = "audioFilters"
  /\ af.pc = "resume"
  /\ af' = initializeAudioContext(af)
  /\ UNCHANGED <<engine, wb, wp, wl, feed, srv, nw>>

AdjustNoiseSensitivity(level) ==
  /\ engine = "audioFilters"
  /\ af' = adjustNoiseSensitivity(af, level)
  /\ UNCHANGED <<engine, wb, wp, wl, feed, srv, nw>>

GetAudioLevel ==
  /\ engine = "audioFilters"
  /\ af.analysers < MaxLevelReads
  /\ af' = getAudioLevel(af)
  /\ UNCHANGED <<engine, wb, wp, wl, feed, srv, nw>>

Dispose ==
  /\ engine = "audioFilters"
  /\ af' = dispose(af)
  /\ UNCHANGED <<engine, wb, wp, wl, feed, srv, nw>>

\* ---- Chain B: actions ----------------------------------------------------

\* the caller starts a session when none is active: at first, after destroy,
\* or after a start that failed
Start ==
  /\ engine = "chainB"
  /\ wb.starts < MaxStarts
  /\ \/ wb.pc = "idle"
     \/ wb.pc = "calibrating" /\ wb.audioContext = "closed"
  /\ wb.starts = 0 \/ wb.stopped \/ wb.result = "rejected"
  /\ wb' = initializeWebRTCStream(wb)
  /\ UNCHANGED <<engine, wp, af, wl, feed, srv, nw>>

\* the first start of the object
FirstStart ==
  /\ engine = "chainB"
  /\ wb.starts = 0
  /\ wb' = initializeWebRTCStream(wb)
  /\ UNCHANGED <<engine, wp, af, wl, feed, srv, nw>>

GetUserMedia(outcome) ==
  /\ engine = "chainB"
  /\ wb.pc \in {"gum1", "gum2"}
  /\ wb' = streamAcquired(wb, outcome)
  /\ UNCHANGED <<engine, wp, af, wl, feed, srv, nw>>

Resume ==
  /\ engine = "chainB"
  /\ wb.pc = "resume"
  /\ wb' = applyAdvancedFiltering(wb)
  /\ UNCHANGED <<engine, wp, af, wl, feed, srv, nw>>

\* the calibration processor's audioprocess event can be dispatched
CalFires ==
  /\ wb.cal.node # 0
  /\ Fires(wb, Node(wb.cal.node, "calibrationProcessor"))

\* within one sampling window the ambient level is steady: its frames carry
\* the energy of the first one
Steady(e) == (wb.cal.samples \in 1..(TargetSamples - 1)) => e = wb.cal.first

CalFrame(e) ==
  /\ engine = "chainB"
  /\ CalFires
  /\ wb.cal.samples < TargetSamples + MaxPostFrames
  /\ Steady(e)
  /\ wb' = calibrationProcessor(wb, e)
  /\ UNCHANGED <<engine, wp, af, wl, feed, srv, nw>>

Destroy ==
  /\ engine = "chainB"
  /\ wb' = destroy(wb)
  /\ UNCHANGED <<engine, wp, af, wl, feed, srv, nw>>

\* the context finishes closing: its state attribute becomes "closed"
ContextClosed ==
  /\ engine = "chainB"
  /\ wb.audioContext = "closing"
  /\ wb' = [wb EXCEPT !.audioContext = "closed"]
  /\ UNCHANGED <<engine, wp, af, wl, feed, srv, nw>>

\* ---- the object with noise filter levels (webrtcFilters.ts:439-840) -------

\* NoiseFilterLevel (webrtcFilters.ts:444)
NoiseFilterLevels == {"low", "medium", "high", "aggressive"}

\* the object after "new WebRTCAdvancedFilters()" (webrtcFilters.ts:461-487);
\* thresholds in millionths
InitL(onClosed) ==
  [ audioContext |-> "suspended",
    sourceNode |-> 0, destinationNode |-> 0, filterChain |-> <<>>,
    currentLevel |-> "medium",
    originalStream |-> 0, isInitialized |-> FALSE,
    compressor |-> 0, highPassFilter |-> 0, lowPassFilter |-> 0,
    notchFilter |-> 0, speechEnhancer |-> 0, noiseGate |-> 0, limiter |-> 0,
    noiseGateThreshold |-> 10000, compressionRatio |-> 4,
    isProcessing |-> FALSE,
    \* AudioParam values of the nodes
    highPassFrequency |-> 0, speechEnhancerGain |-> 0, lowPassFrequency |-> 0,
    compressorRatio |-> 0, noiseGateGain |-> 0,
    \* runtime
    createOnClosed |-> onClosed,
    edges |-> {}, loops |-> {}, nStreams |-> 0, liveTracks |-> {}, gen |-> 0,
    \* the getOptimizedStream call in flight and its argument
    pc |-> "idle", level |-> "none", result |-> "none", starts |-> 0,
    \* history
    stopped |-> FALSE, ticks |-> 0 ]

\* createAdvancedFilterChain (webrtcFilters.ts:539-599)
createAdvancedFilterChainL(s) ==
  LET g == s.gen IN
  [s EXCEPT !.highPassFilter = g, !.highPassFrequency = 200,
            !.notchFilter = g,
            !.speechEnhancer = g, !.speechEnhancerGain = 4,
            !.lowPassFilter = g, !.lowPassFrequency = 6500,
            !.compressor = g, !.compressorRatio = s.compressionRatio,
            !.noiseGate = g, !.noiseGateGain = GateOpenGain,
            !.limiter = g,
            !.filterChain = <<Node(g, "highPassFilter"), Node(g, "notchFilter"),
                              Node(g, "speechEnhancer"), Node(g, "lowPassFilter"),
                              Node(g, "compressor"), Node(g, "noiseGate"),
                              Node(g, "limiter")>>]

\* connectFilterChain (webrtcFilters.ts:601-619)
connectFilterChainL(s) ==
  IF s.sourceNode = 0 \/ s.destinationNode = 0 \/ Len(s.filterChain) = 0
  THEN s
  ELSE LET fc == s.filterChain
       IN [s EXCEPT !.edges = @ \cup {<<Node(s.sourceNode, "sourceNode"), fc[1]>>}
                                 \cup {<<fc[i], fc[i + 1]>> : i \in 1..(Len(fc) - 1)}
                                 \cup {<<fc[Len(fc)], Node(s.destinationNode, "destinationNode")>>}]

\* one run of the processGate closure created by start g
\* (webrtcFilters.ts:638-659)
processGateL(s, g, rms) ==
  IF ~s.isProcessing
  THEN [s EXCEPT !.loops = @ \ {g}]
  ELSE LET target == IF rms > s.noiseGateThreshold THEN GateOpenGain ELSE GateFloorGain
           currentGain == s.noiseGateGain
           smoothGain == currentGain + ((target - currentGain) * SmoothingPercent) \div 100
       IN [s EXCEPT !.noiseGateGain = smoothGain, !.loops = @ \cup {g},
                    !.ticks = @ + 1]

\* startNoiseGateProcessor (webrtcFilters.ts:621-663): the first processGate
\* run is synchronous and reads an analyser that has no data yet
startNoiseGateProcessorL(s) ==
  IF s.noiseGate = 0
  THEN s
  ELSE LET analyzerIndex == IndexOf(s.filterChain, Node(s.noiseGate, "noiseGate"))
           s1 == IF analyzerIndex > 0
                 THEN [s EXCEPT !.edges = @ \cup {<<s.filterChain[analyzerIndex],
                                                     Node(s.gen, "analyzer")>>}]
                 ELSE s
       IN processGateL([s1 EXCEPT !.isProcessing = TRUE], s.gen, 0)

\* tuneFiltersForLevel (webrtcFilters.ts:731-771): a name that matches no case
\* changes nothing
tuneFiltersForLevel(s, level) ==
  LET c == s.compressor # 0
      h == s.highPassFilter # 0
      e == s.speechEnhancer # 0
      l == s.lowPassFilter # 0
  IN CASE level = "low" ->
            [s EXCEPT !.compressorRatio = IF c THEN 3 ELSE @,
                      !.highPassFrequency = IF h THEN 180 ELSE @,
                      !.speechEnhancerGain = IF e THEN 3 ELSE @,
                      !.noiseGateThreshold = 8000]
       [] level = "medium" ->
            [s EXCEPT !.compressorRatio = IF c THEN 5 ELSE @,
                      !.highPassFrequency = IF h THEN 200 ELSE @,
                      !.speechEnhancerGain = IF e THEN 4 ELSE @,
                      !.noiseGateThreshold = 12000]
       [] level = "high" ->
            [s EXCEPT !.compressorRatio = IF c THEN 7 ELSE @,
                      !.highPassFrequency = IF h THEN 220 ELSE @,
                      !.speechEnhancerGain = IF e THEN 5 ELSE @,
                      !.lowPassFrequency = IF l THEN 6000 ELSE @,
                      !.noiseGateThreshold = 18000]
       [] level = "aggressive" ->
            [s EXCEPT !.compressorRatio = IF c THEN 10 ELSE @,
                      !.highPassFrequency = IF h THEN 250 ELSE @,
                      !.speechEnhancerGain = IF e THEN 6 ELSE @,
                      !.lowPassFrequency = IF l THEN 5500 ELSE @,
                      !.noiseGateThreshold = 25000]
       [] OTHER -> s

\* getOptimizedStream from the creation of the source node to its return
\* (webrtcFilters.ts:693-715); an exception is caught and the fallback
\* getUserMedia is requested (l.717-728)
buildGraphL(s) ==
  IF s.audioContext \in {"closing", "closed"} /\ s.createOnClosed = "throws"
  THEN [s EXCEPT !.pc = "gum2"]
  ELSE LET g == s.gen + 1
           s1 == [s EXCEPT !.gen = g, !.sourceNode = g, !.destinationNode = g]
           s2 == startNoiseGateProcessorL(connectFilterChainL(createAdvancedFilterChainL(s1)))
           s3 == tuneFiltersForLevel([s2 EXCEPT !.isInitialized = TRUE], s.level)
       IN [s3 EXCEPT !.pc = "idle", !.result = "processed"]

\* getOptimizedStream up to its first await (webrtcFilters.ts:665-688)
getOptimizedStreamL(s, level) ==
  [s EXCEPT !.currentLevel = level, !.level = level,
            !.pc = "gum1", !.result = "pending", !.starts = @ + 1, !.stopped = FALSE]

\* the first getUserMedia settles (webrtcFilters.ts:672-691)
streamAcquiredL(s, outcome) ==
  IF outcome # "ok"
  THEN [s EXCEPT !.pc = "gum2"]
  ELSE LET s1 == [s EXCEPT !.nStreams = @ + 1, !.originalStream = s.nStreams + 1,
                           !.liveTracks = @ \cup {s.nStreams + 1}]
       IN IF s1.audioContext = "suspended"
          THEN [s1 EXCEPT !.pc = "resume"]
          ELSE buildGraphL(s1)

\* audioContext.resume() settles (webrtcFilters.ts:689-691): it rejects on a
\* context that close() was called on
contextResumedL(s) ==
  IF s.audioContext \in {"closing", "closed"}
  THEN [s EXCEPT !.pc = "gum2"]
  ELSE buildGraphL([s EXCEPT !.audioContext = "running"])

\* the fallback getUserMedia settles (webrtcFilters.ts:717-728): its stream is
\* returned as it is and kept nowhere
fallbackAcquiredL(s, outcome) ==
  IF outcome = "ok"
  THEN [s EXCEPT !.nStreams = @ + 1, !.liveTracks = @ \cup {s.nStreams + 1},
                 !.pc = "idle", !.result = "raw"]
  ELSE [s EXCEPT !.pc = "idle", !.result = "rejected"]

\* setNoiseLevel (webrtcFilters.ts:773-782)
setNoiseLevel(s, level) ==
  IF ~s.isInitialized
  THEN s
  ELSE tuneFiltersForLevel([s EXCEPT !.currentLevel = level], level)

\* cleanup (webrtcFilters.ts:788-805)
cleanupL(s) ==
  [s EXCEPT !.isProcessing = FALSE,
            !.liveTracks = IF s.originalStream # 0 THEN @ \ {s.originalStream} ELSE @,
            !.audioContext = IF @ \in {"suspended", "running"} THEN "closing" ELSE @,
            !.sourceNode = 0, !.destinationNode = 0, !.filterChain = <<>>,
            !.isInitialized = FALSE,
            !.stopped = TRUE]

\* ---- the object with noise filter levels: actions --------------------------

GetOptimizedStreamL(level) ==
  /\ engine = "levels"
  /\ wl.starts < MaxStarts
  /\ wl.pc = "idle"
  /\ wl' = getOptimizedStreamL(wl, level)
  /\ UNCHANGED <<engine, wb, wp, af, feed, srv, nw>>

GetUserMediaL(outcome) ==
  /\ engine = "levels"
  /\ wl.pc \in {"gum1", "gum2"}
  /\ wl' = IF wl.pc = "gum1" THEN streamAcquiredL(wl, outcome)
                             ELSE fallbackAcquiredL(wl, outcome)
  /\ UNCHANGED <<engine, wb, wp, af, feed, srv, nw>>

ResumeL ==
  /\ engine = "levels"
  /\ wl.pc = "resume"
  /\ wl' = contextResumedL(wl)
  /\ UNCHANGED <<engine, wb, wp, af, feed, srv, nw>>

\* an animation frame runs the processGate closure of start g
AnimationFrameL(g, rms) ==
  /\ engine = "levels"
  /\ g \in wl.loops
  /\ wl.isProcessing => wl.ticks < MaxGateTicks
  /\ wl' = processGateL(wl, g, rms)
  /\ UNCHANGED <<engine, wb, wp, af, feed, srv, nw>>

SetNoiseLevel(level) ==
  /\ engine = "levels"
  /\ wl' = setNoiseLevel(wl, level)
  /\ UNCHANGED <<engine, wb, wp, af, feed, srv, nw>>

CleanupL ==
  /\ engine = "levels"
  /\ wl' = cleanupL(wl)
  /\ UNCHANGED <<engine, wb, wp, af, feed, srv, nw>>

ContextClosedL ==
  /\ engine = "levels"
  /\ wl.audioContext = "closing"
  /\ wl' = [wl EXCEPT !.audioContext = "closed"]
  /\ UNCHANGED <<engine, wb, wp, af, feed, srv, nw>>

\* ---- AudioWorklet noise gate (part_004:629-680) ------------------------------
\* amplitudes and the threshold are in millionths, the envelope in units of
\* 1 / releaseTime

WorkletThreshold == 5000
WorkletAttackTime == 32
WorkletReleaseTime == 1024

\* |sample|: silence, the threshold itself and a level above it
SampleAmplitudes == {0, 5000, 6000}

\* the processor after its constructor (part_004:630-639); loudSeen and quiet
\* are kept beside it: whether a sample above the threshold has been processed
\* and the number of samples at or below it processed since the last one
InitNW ==
  [ threshold |-> WorkletThreshold, holdTime |-> 0,
    attackTime |-> WorkletAttackTime, releaseTime |-> WorkletReleaseTime,
    gateState |-> 0, envelope |-> 0,
    loudSeen |-> FALSE, quiet |-> 0 ]

\* the same iteration closing the gate without waiting for holdTime
processSampleNoHold(s, amplitude) ==
  LET s1 == IF amplitude > s.threshold
            THEN [s EXCEPT !.gateState = 1, !.holdTime = s.releaseTime]
            ELSE [s EXCEPT !.gateState = 0]
      targetEnvelope == s1.gateState * s.releaseTime
      envelope == IF s.envelope < targetEnvelope
                  THEN s.envelope + s.releaseTime \div s.attackTime
                  ELSE IF s.envelope > targetEnvelope
                  THEN s.envelope - 1
                  ELSE s.envelope
  IN [s1 EXCEPT !.envelope = Max(0, Min(s.releaseTime, envelope))]

\* one iteration of the loop of process() (part_004:649-673)
processSample(s, amplitude) ==
  LET s1 == IF amplitude > s.threshold
            THEN [s EXCEPT !.gateState = 1, !.holdTime = s.releaseTime]
            ELSE IF s.holdTime > 0
            THEN [s EXCEPT !.holdTime = @ - 1]
            ELSE [s EXCEPT !.gateState = 0]
      targetEnvelope == s1.gateState * s.releaseTime
      envelope == IF s.envelope < targetEnvelope
                  THEN s.envelope + s.releaseTime \div s.attackTime
                  ELSE IF s.envelope > targetEnvelope
                  THEN s.envelope - 1
                  ELSE s.envelope
  IN [s1 EXCEPT !.envelope = Max(0, Min(s.releaseTime, envelope))]

\* the run of samples at or below the threshold, counted from the input alone
ObserveSample(s, t, amplitude) ==
  [t EXCEPT !.loudSeen = s.loudSeen \/ amplitude > s.threshold,
            !.quiet = IF amplitude > s.threshold THEN 0
                      ELSE Min(s.quiet + 1, s.releaseTime + 1)]

ProcessSample(amplitude) ==
  /\ engine = "worklet"
  /\ nw' = ObserveSample(nw, processSample(nw, amplitude), amplitude)
  /\ UNCHANGED <<engine, wb, wp, af, wl, feed, srv>>

\* ---- call limits server (server/storage.ts) ----------------------------------
\* times are in milliseconds since the start of the server's first day; a null
\* column or an absent setting is the empty sequence, a present one <<value>>

DefaultUserLimitMinutes == 10
DefaultTotalLimitMinutes == 180
OrphanThresholdMinutes == 30

Users == {"u1", "u2"}
NoSettings == [user |-> <<>>, total |-> <<>>]
\* values of DAILY_USER_LIMIT_MINUTES and DAILY_TOTAL_LIMIT_MINUTES
SettingChoices ==
  {NoSettings, [user |-> <<1>>, total |-> <<1>>], [user |-> <<1>>, total |-> <<2>>]}
\* time that passes between two requests
Elapsed == {30 * 1000}
\* maxDurationMinutes of a cleanup request, in half minutes: 0.5 as sent by the
\* client after token verification, the defaults 2.0 and 30 of the two route
\* files
CleanupHalfMinutes == {1, 4, 2 * OrphanThresholdMinutes}

\* the response of the pre-call check; the responses of the other routes are
\* not followed
Resp(route, userId, status, error, userSecondsUsed, totalSecondsUsed) ==
  [route |-> route, userId |-> userId, status |-> status, error |-> error,
   userSecondsUsed |-> userSecondsUsed, totalSecondsUsed |-> totalSecondsUsed]
NoResp == Resp("none", "", 0, "none", 0, 0)

InitS(settings) ==
  [calls |-> <<>>, settings |-> settings, now |-> 0, resp |-> NoResp]

\* new Date().toISOString().split('T')[0]: the UTC day
today(now) == now \div (24 * 60 * 60 * 1000)
\* Math.round(ms / 1000) of a non-negative number of milliseconds
RoundSeconds(ms) == (ms + 500) \div 1000

RECURSIVE SumDuration(_, _)
SumDuration(calls, ids) ==
  IF ids = {} THEN 0
  ELSE LET i == CHOOSE j \in ids : TRUE
       IN calls[i].durationSeconds + SumDuration(calls, ids \ {i})

getDailyUserSeconds(s, userId, date) ==
  SumDuration(s.calls, {i \in DOMAIN s.calls :
                          s.calls[i].userId = userId /\ s.calls[i].date = date})
getDailyTotalSeconds(s, date) ==
  SumDuration(s.calls, {i \in DOMAIN s.calls : s.calls[i].date = date})
\* calls without an end time of one user
getActiveCall(s, userId) ==
  {i \in DOMAIN s.calls : s.calls[i].userId = userId /\ s.calls[i].endTime = <<>>}
getOrphanedCalls(s, cutoffTime) ==
  {i \in DOMAIN s.calls : s.calls[i].endTime = <<>> /\ s.calls[i].startTime < cutoffTime}

\* parseInt(setting || default) * 60
dailyUserLimitSeconds(s) ==
  (IF s.settings.user = <<>> THEN DefaultUserLimitMinutes ELSE s.settings.user[1]) * 60
dailyTotalLimitSeconds(s) ==
  (IF s.settings.total = <<>> THEN DefaultTotalLimitMinutes ELSE s.settings.total[1]) * 60

\* the same handler testing the user's limit before the total limit
checkLimitsUserFirst(s, userId) ==
  IF userId = ""
  THEN [s EXCEPT !.resp = Resp("check-limits", userId, 400, "userId is required", 0, 0)]
  ELSE LET userSecondsUsed == getDailyUserSeconds(s, userId, today(s.now))
           totalSecondsUsed == getDailyTotalSeconds(s, today(s.now))
           answer(status, error) ==
             Resp("check-limits", userId, status, error, userSecondsUsed, totalSecondsUsed)
       IN IF userSecondsUsed >= dailyUserLimitSeconds(s)
          THEN [s EXCEPT !.resp = answer(429, "daily_user_limit_exceeded")]
          ELSE IF totalSecondsUsed >= dailyTotalLimitSeconds(s)
          THEN [s EXCEPT !.resp = answer(429, "daily_total_limit_exceeded")]
          ELSE [s EXCEPT !.resp = answer(200, "none")]

\* POST /api/call/check-limits (storage.ts:483-565)
checkLimits(s, userId) ==
  IF userId = ""
  THEN [s EXCEPT !.resp = Resp("check-limits", userId, 400, "userId is required", 0, 0)]
  ELSE LET userSecondsUsed == getDailyUserSeconds(s, userId, today(s.now))
           totalSecondsUsed == getDailyTotalSeconds(s, today(s.now))
           answer(status, error) ==
             Resp("check-limits", userId, status, error, userSecondsUsed, totalSecondsUsed)
       IN IF totalSecondsUsed >= dailyTotalLimitSeconds(s)
          THEN [s EXCEPT !.resp = answer(429, "daily_total_limit_exceeded")]
          ELSE IF userSecondsUsed >= dailyUserLimitSeconds(s)
          THEN [s EXCEPT !.resp = answer(429, "daily_user_limit_exceeded")]
          ELSE [s EXCEPT !.resp = answer(200, "none")]

\* POST /api/call/start (storage.ts:821-889)
callStart(s, userId) ==
  IF userId = ""
  THEN [s EXCEPT !.resp = NoResp]
  ELSE LET totalUserSecondsToday == getDailyUserSeconds(s, userId, today(s.now))
           totalSystemSecondsToday == getDailyTotalSeconds(s, today(s.now))
       IN IF totalUserSecondsToday >= dailyUserLimitSeconds(s)
          THEN [s EXCEPT !.resp = NoResp]
          ELSE IF totalSystemSecondsToday >= dailyTotalLimitSeconds(s)
          THEN [s EXCEPT !.resp = NoResp]
          ELSE [s EXCEPT !.calls = Append(@, [userId |-> userId, startTime |-> s.now,
                                              endTime |-> <<>>, date |-> today(s.now),
                                              durationSeconds |-> 0, endReason |-> <<>>]),
                         !.resp = NoResp]

\* the force-end of one branch of check-active-limits (storage.ts:610-642 and
\* 661-693): callLogId 0 is an absent id
forceEndCall(s, callLogId, limitSeconds, baseSecondsUsed, endReason) ==
  IF callLogId # 0 /\ callLogId \in DOMAIN s.calls /\ s.calls[callLogId].endTime = <<>>
  THEN LET actualCallDurationSeconds == RoundSeconds(s.now - s.calls[callLogId].startTime)
           maxAllowedDuration == Max(0, limitSeconds - baseSecondsUsed)
           actualDurationToRecord == Min(actualCallDurationSeconds, maxAllowedDuration)
       IN [s EXCEPT !.calls[callLogId].endTime = <<s.now>>,
                    !.calls[callLogId].durationSeconds = actualDurationToRecord,
                    !.calls[callLogId].endReason = <<endReason>>]
  ELSE s

\* POST /api/call/check-active-limits (storage.ts:568-748)
checkActiveLimits(s, userId, callLogId, currentDurationSeconds) ==
  IF userId = ""
  THEN [s EXCEPT !.resp = NoResp]
  ELSE LET baseUserSecondsUsed == getDailyUserSeconds(s, userId, today(s.now))
           baseTotalSecondsUsed == getDailyTotalSeconds(s, today(s.now))
           totalUserSecondsWithCurrent == baseUserSecondsUsed + currentDurationSeconds
           totalSystemSecondsWithCurrent == baseTotalSecondsUsed + currentDurationSeconds
       IN IF totalUserSecondsWithCurrent >= dailyUserLimitSeconds(s)
          THEN [forceEndCall(s, callLogId, dailyUserLimitSeconds(s), baseUserSecondsUsed,
                             "user_limit_exceeded")
                  EXCEPT !.resp = NoResp]
          ELSE IF totalSystemSecondsWithCurrent >= dailyTotalLimitSeconds(s)
          THEN [forceEndCall(s, callLogId, dailyTotalLimitSeconds(s), baseTotalSecondsUsed,
                             "system_limit_exceeded")
                  EXCEPT !.resp = NoResp]
          ELSE [s EXCEPT !.resp = NoResp]

\* POST /api/call/end (storage.ts:892-972); active is the row getActiveCall
\* returns, 0 when there is none. The ElevenLabs timestamps of the request are
\* taken to agree with the server's clock, so each way of computing the
\* duration gives the time since the start of the call.
callEnd(s, callLogId, userId, active, endReason) ==
  IF callLogId = 0 /\ userId = ""
  THEN [s EXCEPT !.resp = NoResp]
  ELSE IF callLogId # 0
  THEN IF callLogId \in DOMAIN s.calls
       THEN [s EXCEPT !.calls[callLogId].endTime = <<s.now>>,
                      !.calls[callLogId].endReason = <<endReason>>,
                      !.calls[callLogId].durationSeconds =
                         RoundSeconds(s.now - s.calls[callLogId].startTime),
                      !.resp = NoResp]
       ELSE [s EXCEPT !.resp = NoResp]
  ELSE IF active # 0
  THEN [s EXCEPT !.calls[active].endTime = <<s.now>>,
                 !.calls[active].endReason = <<endReason>>,
                 !.calls[active].durationSeconds = RoundSeconds(s.now - s.calls[active].startTime),
                 !.resp = NoResp]
  ELSE [s EXCEPT !.resp = NoResp]

\* POST /api/call/force-end (storage.ts:751-818) without a reason in the
\* request; active is the row getActiveCall returns, 0 when there is none
forceEnd(s, callLogId, userId, active) ==
  IF userId = "" /\ callLogId = 0
  THEN [s EXCEPT !.resp = NoResp]
  ELSE IF callLogId # 0
  THEN IF callLogId \notin DOMAIN s.calls
       THEN [s EXCEPT !.resp = NoResp]
       ELSE IF s.calls[callLogId].endTime # <<>>
       THEN [s EXCEPT !.resp = NoResp]
       ELSE [s EXCEPT !.calls[callLogId].endTime = <<s.now>>,
                      !.calls[callLogId].durationSeconds =
                         RoundSeconds(s.now - s.calls[callLogId].startTime),
                      !.calls[callLogId].endReason = <<"force_end">>,
                      !.resp = NoResp]
  ELSE IF active = 0
  THEN [s EXCEPT !.resp = NoResp]
  ELSE [s EXCEPT !.calls[active].endTime = <<s.now>>,
                 !.calls[active].durationSeconds = RoundSeconds(s.now - s.calls[active].startTime),
                 !.calls[active].endReason = <<"force_end">>,
                 !.resp = NoResp]

\* POST /api/call/cleanup-orphaned (storage.ts:975-1013, 1591-1629)
cleanupOrphaned(s, halfMinutes) ==
  LET cutoffTime == s.now - halfMinutes * 30 * 1000
      orphanedCalls == getOrphanedCalls(s, cutoffTime)
  IN [s EXCEPT !.calls = [i \in DOMAIN s.calls |->
                            IF i \in orphanedCalls
                            THEN [s.calls[i] EXCEPT
                                    !.endTime = <<s.now>>,
                                    !.durationSeconds = RoundSeconds(s.now - s.calls[i].startTime),
                                    !.endReason = <<"browser_disconnect">>]
                            ELSE s.calls[i]],
                 !.resp = NoResp]

\* time passes; the response of the last request has been delivered
Tick(d) ==
  /\ engine = "server"
  /\ srv.now + d <= MaxHalfMinutes * 30 * 1000
  /\ srv' = [srv EXCEPT !.now = @ + d, !.resp = NoResp]
  /\ UNCHANGED <<engine, wb, wp, af, wl, feed, nw>>

CheckLimits(userId) ==
  /\ engine = "server"
  /\ srv' = checkLimits(srv, userId)
  /\ UNCHANGED <<engine, wb, wp, af, wl, feed, nw>>

\* each user places one call in the period that is followed
CallStart(userId) ==
  /\ engine = "server"
  /\ \A i \in DOMAIN srv.calls : srv.calls[i].userId # userId
  /\ srv' = callStart(srv, userId)
  /\ UNCHANGED <<engine, wb, wp, af, wl, feed, nw>>

\* the client sends the duration of its call as it measures it, or none
CheckActiveLimits(userId, callLogId) ==
  /\ engine = "server"
  /\ \E currentDurationSeconds \in
          {0} \cup {RoundSeconds(srv.now - srv.calls[i].startTime) :
                      i \in {callLogId} \cap DOMAIN srv.calls} :
       srv' = checkActiveLimits(srv, userId, callLogId, currentDurationSeconds)
  /\ UNCHANGED <<engine, wb, wp, af, wl, feed, nw>>

CallEnd(callLogId, userId) ==
  /\ engine = "server"
  /\ \E active \in (IF getActiveCall(srv, userId) = {} THEN {0} ELSE getActiveCall(srv, userId)) :
       srv' = callEnd(srv, callLogId, userId, active, "user_stop")
  /\ UNCHANGED <<engine, wb, wp, af, wl, feed, nw>>

ForceEnd(callLogId, userId) ==
  /\ engine = "server"
  /\ \E active \in (IF getActiveCall(srv, userId) = {} THEN {0} ELSE getActiveCall(srv, userId)) :
       srv' = forceEnd(srv, callLogId, userId, active)
  /\ UNCHANGED <<engine, wb, wp, af, wl, feed, nw>>

CleanupOrphaned(halfMinutes) ==
  /\ engine = "server"
  /\ srv' = cleanupOrphaned(srv, halfMinutes)
  /\ UNCHANGED <<engine, wb, wp, af, wl, feed, nw>>

Engines == {"chainB", "params", "audioFilters"}

\* the runtimes the Chain B object can find itself on
RuntimesB == {InitB(r, sp) : r \in DispatchRules, sp \in BOOLEAN}

\* one of the objects is followed; the others stay as constructed
Init ==
  /\ engine \in Engines
  /\ IF engine = "chainB" THEN wb \in RuntimesB ELSE wb = InitB("any", TRUE)
  /\ IF engine = "params" THEN wp \in {InitP(c) : c \in {"allowed", "throws"}}
                          ELSE wp = InitP("allowed")
  /\ IF engine = "audioFilters" THEN af \in {InitAF(sp) : sp \in BOOLEAN}
                                ELSE af = InitAF(TRUE)
  /\ wl = InitL("allowed")
  /\ feed = NoFeed
  /\ srv = InitS(NoSettings)
  /\ nw = InitNW

\* when several sessions are followed the ambient sound is taken to be steady
\* and of flat spectrum during a sampling window: the gate callback reads the
\* level the calibration callback has read
Ambient(e) ==
  (wb.cal.node # 0 /\ wb.cal.samples < TargetSamples) =>
     (wb.cal.samples > 0 /\ e = wb.cal.first)

NextB ==
  \/ Start
  \/ \E o \in GumOutcomes : GetUserMedia(o)
  \/ Resume
  \/ \E e \in GateEnergies \cup AmbientLevels : Ambient(e) /\ GateFrame(e)
  \/ \E e \in AmbientLevels : CalFrame(e)
  \/ Destroy
  \/ ContextClosed

NextP ==
  \/ GetOptimizedStream
  \/ \E o \in GumOutcomes : GetUserMediaP(o)
  \/ ResumeP
  \/ \E g \in wp.loops, rms \in FrameLevels : AnimationFrame(g, rms)
  \/ \E params \in ParamUpdates : UpdateFilterParams(params)
  \/ Cleanup
  \/ ContextClosedP

NextAF ==
  \/ GetFilteredMicrophoneStream
  \/ \E o \in GumOutcomes : GetUserMediaAF(o)
  \/ ResumeAF
  \/ \E level \in {"low", "medium", "high"} : AdjustNoiseSensitivity(level)
  \/ GetAudioLevel
  \/ Dispose

NextL ==
  \/ \E level \in LevelInputs : GetOptimizedStreamL(level)
  \/ \E o \in GumOutcomes : GetUserMediaL(o)
  \/ ResumeL
  \/ \E g \in wl.loops : AnimationFrameL(g, LevelFrame)
  \/ \E level \in LevelInputs : SetNoiseLevel(level)
  \/ CleanupL
  \/ ContextClosedL

Next == NextB \/ NextP \/ NextAF

\* every start, stop, update and callback of the three objects
Spec == Init /\ [][Next]_vars

\* the object with noise filter levels is followed, on either runtime
LevelInit ==
  /\ engine = "levels"
  /\ wb = InitB("any", TRUE)
  /\ wp = InitP("allowed")
  /\ af = InitAF(TRUE)
  /\ wl \in {InitL(c) : c \in {"allowed", "throws"}}
  /\ feed = NoFeed
  /\ srv = InitS(NoSettings)
  /\ nw = InitNW

\* every start, level selection, stop and callback of the object with noise
\* filter levels
LevelSpec == LevelInit /\ [][NextL]_vars

SessionInit == Init /\ engine = "chainB"

SessionNext ==
  \/ FirstStart
  \/ \E o \in GumOutcomes : GetUserMedia(o)
  \/ Resume
  \/ \E e \in GateEnergies : GateFrame(e)
  \/ \E e \in CalEnergies : CalFrame(e)
  \/ Destroy
  \/ ContextClosed

\* one session of the Chain B object, over the wider range of ambient levels
SessionSpec == SessionInit /\ [][SessionNext]_vars

\* ---- the noise gate's contract ---------------------------------------------

\* C1: once the energy has dropped to <= closeThreshold and stays there, an
\* Open gate stays Open until the frames since the drop add up to at least
\* holdTime, is Closed by the frame that completes holdTime, closes exactly
\* once in that run and does not reopen while the run lasts
GateHoldsThenClosesOnce ==
  /\ wb.gateParams.isOpen =>
        wb.lowRun < HoldLimit(wb.gateParams) /\ wb.closes = 0
  /\ ~wb.gateParams.isOpen =>
        wb.closes <= 1 /\ (wb.closes = 1 => wb.lowRun >= HoldLimit(wb.gateParams))

\* a gate that closed after holding through a run of low frames
GateClosedAfterHold ==
  /\ ~wb.gateParams.isOpen
  /\ wb.closes = 1
  /\ wb.lowRun >= HoldLimit(wb.gateParams)
  /\ wb.calibration.calibrated

\* C2: an Open gate is left Open by every frame above closeThreshold, which
\* also resets the hold counter to zero, and by every frame at or below it
\* unless that frame completes a run of such frames lasting holdTime
FlutterResistance ==
  (GateFires /\ wb.gateParams.isOpen) =>
    \A e \in GateEnergies :
      /\ e > wb.gateParams.closeThreshold =>
            /\ AfterGateFrame(e).gateParams.isOpen
            /\ AfterGateFrame(e).gateParams.holdCounter = 0
      /\ (e <= wb.gateParams.closeThreshold
           /\ wb.lowRun + FrameDuration < HoldLimit(wb.gateParams)) =>
            AfterGateFrame(e).gateParams.isOpen

\* an Open gate whose hold counter was reset after it had started to count
GateOpenAfterFlutter ==
  /\ wb.gateParams.isOpen
  /\ wb.gateParams.holdCounter = 0
  /\ wb.lowRun = 0
  /\ wb.flutters > 0

\* C4: a frame processed while the gate is Closed opens it, with hold counter
\* 0 and the attenuator's target at unity, exactly when its energy is above
\* openThreshold; otherwise the gate and the attenuator are left as they were
ClosedGateOpensAboveOpenThreshold ==
  (GateFires /\ ~wb.gateParams.isOpen) =>
    \A e \in GateEnergies :
      IF e > wb.gateParams.openThreshold
      THEN /\ AfterGateFrame(e).gateParams.isOpen
           /\ AfterGateFrame(e).gateParams.holdCounter = 0
           /\ AfterGateFrame(e).noiseGateGain = 100
      ELSE /\ ~AfterGateFrame(e).gateParams.isOpen
           /\ AfterGateFrame(e).noiseGateGain = wb.noiseGateGain

\* a gate opened by a frame after calibration moved the thresholds
GateOpenedAfterCalibration ==
  /\ wb.gateParams.isOpen
  /\ wb.gateParams.holdCounter = 0
  /\ wb.noiseGateGain = 100
  /\ wb.calibration.calibrated
  /\ wb.gateParams.openThreshold # DefaultOpenThreshold

\* C3: in every reachable state (after construction, calibration with any
\* noise floor, any live parameter update) the gate's openThreshold is
\* strictly greater than its closeThreshold
HysteresisInvariant ==
  /\ wb.gateParams.openThreshold > wb.gateParams.closeThreshold
  /\ openThresholdP(wp) > closeThresholdP(wp)

\* C6: in every state of an object (never started, start partially failed,
\* active, already stopped) its teardown does not throw, and a second
\* teardown right after it does not throw and leaves the object exactly as
\* the first one left it
IdempotentTeardown ==
  /\ ~destroy(wb).threw /\ destroy(destroy(wb)) = destroy(wb)
  /\ ~cleanup(wp).threw /\ cleanup(cleanup(wp)) = cleanup(wp)
  /\ ~dispose(af).threw /\ dispose(dispose(af)) = dispose(af)

\* an AudioFilters object that returned a processed stream and was disposed:
\* disposing it again changes nothing
DisposedTwice ==
  /\ engine = "audioFilters"
  /\ af.stopped /\ af.result = "processed" /\ af.gen > 0
  /\ dispose(af) = af

\* ---- calibration and teardown of the Chain B object ------------------------

\* what the calibration policy makes of a noise floor n
\* (webrtcFilters.ts:292-308)
CalibratedThresholds(n) ==
  IF n > HighNoiseCutoff
  THEN <<Min(HighNoiseOpenCap, (n * 15) \div 10), Min(HighNoiseCloseCap, (n * 12) \div 10)>>
  ELSE IF n < LowNoiseCutoff
  THEN <<Max(LowNoiseOpenFloor, n * 2), Max(LowNoiseCloseFloor, (n * 15) \div 10)>>
  ELSE <<DefaultOpenThreshold, DefaultCloseThreshold>>

\* C5: fed the steady level N for the whole sampling window, calibration ends
\* with noiseFloor = N and the thresholds the policy derives from N, and once
\* calibrated is set they stay what that step made them
CalibrationConvergesOnce ==
  wb.calibration.calibrated =>
    /\ wb.calibration.noiseFloor = wb.cal.first
    /\ <<wb.gateParams.openThreshold, wb.gateParams.closeThreshold>>
         = CalibratedThresholds(wb.cal.first)

\* C7: once destroy has returned, no audioprocess callback changes the gate
\* state, the thresholds, the calibration data or a stage parameter
NoCallbackEffectAfterStop ==
  [][(wb.stopped /\ wb'.stopped) =>
       /\ wb'.gateParams = wb.gateParams
       /\ wb'.calibration = wb.calibration
       /\ wb'.highPassFrequency = wb.highPassFrequency
       /\ wb'.outputGain = wb.outputGain
       /\ wb'.noiseGateGain = wb.noiseGateGain]_vars

\* C8: after destroy returns on a session whose start returned the processed
\* stream, every acquired track is stopped, no node of the graph is connected,
\* the context is closed (or closing) and no callback can be dispatched
StopReleasesEverything ==
  (wb.stopped /\ wb.result = "processed") =>
    /\ wb.liveTracks = {}
    /\ wb.edges = {}
    /\ wb.audioContext \in {"closing", "closed"}
    /\ ~GateFires /\ ~CalFires

\* C9: on a runtime without createScriptProcessor a start whose capture
\* succeeded returns the processed stream, and the gate element passes the
\* signal at unity gain
AnalysisUnavailableDegrades ==
  (~wb.hasScriptProcessor /\ ~wb.everStopped) =>
    /\ wb.result = "rejected" => wb.error \in {"NotAllowedError", "OverconstrainedError"}
    /\ wb.result = "processed" => wb.noiseGateGain = 100

\* C10: a start made after destroy finds the gate Closed with hold counter 0,
\* calibrated false and the default thresholds, and, unless the capture
\* itself is refused, returns a processed stream
FreshSessionAfterStop ==
  wb.afterStop =>
    /\ wb.pc = "gum1" =>
          /\ ~wb.gateParams.isOpen /\ wb.gateParams.holdCounter = 0
          /\ ~wb.calibration.calibrated
          /\ wb.gateParams.openThreshold = DefaultOpenThreshold
          /\ wb.gateParams.closeThreshold = DefaultCloseThreshold
    /\ wb.result = "rejected" => wb.error \in {"NotAllowedError", "OverconstrainedError"}

\* ---- parameter updates and capture errors ----------------------------------

\* C11: while the session is not active (never started, start failed or
\* stopped) updateFilterParams changes neither the stored filterParams nor
\* any stage parameter
InactiveUpdateIsNoOp ==
  (engine = "params" /\ ~wp.isInitialized) =>
    \A params \in ParamUpdates :
      LET t == updateFilterParams(wp, params)
      IN /\ t.filterParams = wp.filterParams
         /\ t.highPassFrequency = wp.highPassFrequency
         /\ t.speechEnhancerGain = wp.speechEnhancerGain

\* C12: during an active session, after updateFilterParams(params) every
\* field present in params has its live stage parameter equal to the value
\* supplied and to the stored field, and the graph is the one it was
LiveParameterUpdate ==
  (engine = "params" /\ wp.isInitialized) =>
    \A params \in ParamUpdates :
      LET t == updateFilterParams(wp, params)
      IN /\ "highPassFreq" \in DOMAIN params =>
               /\ t.highPassFrequency = params.highPassFreq
               /\ t.filterParams.highPassFreq = params.highPassFreq
         /\ "speechGain" \in DOMAIN params =>
               /\ t.speechEnhancerGain = params.speechGain
               /\ t.filterParams.speechGain = params.speechGain
         /\ t.edges = wp.edges /\ t.gen = wp.gen

\* C13: a start requests the fallback acquisition only in the step in which
\* its first acquisition failed, and when the fallback acquisition fails the
\* start is rejected
CaptureRetry ==
  [][engine = "chainB" =>
       /\ (wb.pc # "gum2" /\ wb'.pc = "gum2") => (wb.pc = "gum1" /\ wb'.nStreams = wb.nStreams)
       /\ (wb.pc = "gum2" /\ wb'.pc # "gum2" /\ wb'.nStreams = wb.nStreams) =>
             (wb'.pc = "idle" /\ wb'.result = "rejected")]_vars

\* C14: when the first acquisition is refused for lack of permission the
\* start is rejected with that error and no further acquisition is requested
PermissionRefusalIsFatal ==
  (engine = "chainB" /\ wb.pc = "gum1") =>
    LET t == streamAcquired(wb, "NotAllowedError")
    IN t.pc = "idle" /\ t.result = "rejected" /\ t.error = "NotAllowedError"

\* C15: when the first start of the object has been rejected no track it
\* acquired is live and no node it built is connected
FailedStartReleasesEverything ==
  (engine = "chainB" /\ wb.starts = 1 /\ wb.result = "rejected") =>
    /\ wb.liveTracks = {}
    /\ wb.edges = {}

\* ---- the stage list ---------------------------------------------------------

\* the stages of a chain, by the field that holds each node
StageKinds(fc) == [i \in 1..Len(fc) |-> fc[i][2]]

\* the stages that apply a gain: the gate's and the output trim's GainNode,
\* the peaking filter and the two DynamicsCompressorNodes
GainStages == {"noiseGate", "speechEnhancer", "compressor", "limiter", "outputNormalizer"}

\* C16: the stage list built for a valid level is exactly highpass, notch,
\* lookahead delay, noise gate, speech enhancer, lowpass, compressor, limiter,
\* output trim
StageListIsFixed ==
  /\ Len(wb.filterChain) > 0 =>
        StageKinds(wb.filterChain) =
          <<"highPassFilter", "notchFilter", "delayNode", "noiseGate", "speechEnhancer",
            "lowPassFilter", "compressor", "limiter", "outputNormalizer">>
  /\ (Len(wl.filterChain) > 0 /\ wl.level \in NoiseFilterLevels) =>
        StageKinds(wl.filterChain) =
          <<"highPassFilter", "notchFilter", "delayNode", "noiseGate", "speechEnhancer",
            "lowPassFilter", "compressor", "limiter", "outputNormalizer">>

\* C17: in every chain built the notch precedes every gain-applying stage,
\* the noise gate precedes the speech enhancer and the limiter is the last
\* stage
StageOrdering ==
  \A fc \in {wb.filterChain, wp.filterChain} :
    Len(fc) > 0 =>
      LET k == StageKinds(fc)
      IN /\ \A i \in 1..Len(k) : k[i] \in GainStages => IndexOf(k, "notchFilter") + 1 \in 1..(i - 1)
         /\ IndexOf(k, "noiseGate") >= 0
         /\ IndexOf(k, "noiseGate") < IndexOf(k, "speechEnhancer")
         /\ k[Len(k)] = "limiter"

\* ---- the calibration policy -------------------------------------------------

\* C20: after the calibration step of a session, with N the measured noise
\* floor: if N is above the high-noise cutoff both thresholds are >= their
\* defaults, the high-pass cutoff is raised and the output trim lowered; if N
\* is below the low-noise cutoff both thresholds are <= their defaults, the
\* high-pass cutoff is lowered and the output trim raised; otherwise the
\* thresholds and the high-pass cutoff are the defaults
CalibrationPolicy ==
  (engine = "chainB" /\ wb.calCompletions = 1) =>
    LET N == wb.calibration.noiseFloor
        gp == wb.gateParams
    IN /\ N > HighNoiseCutoff =>
            /\ gp.openThreshold >= DefaultOpenThreshold
            /\ gp.closeThreshold >= DefaultCloseThreshold
            /\ wb.highPassFrequency > DefaultHighPassFrequency
            /\ wb.outputGain < TrimDefault
       /\ N < LowNoiseCutoff =>
            /\ gp.openThreshold <= DefaultOpenThreshold
            /\ gp.closeThreshold <= DefaultCloseThreshold
            /\ wb.highPassFrequency < DefaultHighPassFrequency
            /\ wb.outputGain > TrimDefault
       /\ (N >= LowNoiseCutoff /\ N <= HighNoiseCutoff) =>
            /\ gp.openThreshold = DefaultOpenThreshold
            /\ gp.closeThreshold = DefaultCloseThreshold
            /\ wb.highPassFrequency = DefaultHighPassFrequency

\* a session calibrated in high noise: thresholds at their caps, high-pass
\* cutoff raised, output trim lowered
CalibratedInHighNoise ==
  /\ engine = "chainB" /\ wb.calCompletions = 1
  /\ wb.calibration.noiseFloor > HighNoiseCutoff
  /\ wb.gateParams.openThreshold = HighNoiseOpenCap
  /\ wb.gateParams.closeThreshold = HighNoiseCloseCap
  /\ wb.highPassFrequency = HighNoiseHighPassFrequency
  /\ wb.outputGain = TrimDown

\* ---- noise filter levels ----------------------------------------------------

\* the parameters a level selection is about
ParamSet(s) ==
  [ highPassFrequency |-> s.highPassFrequency,
    speechEnhancerGain |-> s.speechEnhancerGain,
    lowPassFrequency |-> s.lowPassFrequency,
    compressorRatio |-> s.compressorRatio,
    noiseGateThreshold |-> s.noiseGateThreshold ]

\* the parameters of a chain that was created and tuned for level: what
\* getOptimizedStream(level) leaves on a new object
Preset(level) ==
  ParamSet(tuneFiltersForLevel(
             createAdvancedFilterChainL([InitL("allowed") EXCEPT !.gen = 1]), level))

\* C18: on an active session whose selected level is L, whatever starts and
\* selections came before, the parameter set is L's preset
SelectionIsHistoryIndependent ==
  (engine = "levels" /\ wl.isInitialized /\ wl.pc = "idle" /\ wl.result = "processed"
     /\ wl.currentLevel \in NoiseFilterLevels) =>
    ParamSet(wl) = Preset(wl.currentLevel)

\* C19: a first start with a name that is no NoiseFilterLevel has, once
\* settled, been rejected without building a graph, and selecting such a name
\* changes neither the parameters nor the selected level
InvalidLevelRejected ==
  engine = "levels" =>
    /\ (wl.starts = 1 /\ wl.level \notin NoiseFilterLevels /\ wl.pc = "idle") =>
          (wl.result = "rejected" /\ wl.gen = 0 /\ wl.edges = {})
    /\ \A name \in LevelInputs \ NoiseFilterLevels :
          LET t == setNoiseLevel(wl, name)
          IN ParamSet(t) = ParamSet(wl) /\ t.currentLevel = wl.currentLevel

\* ---- the lookahead tap ------------------------------------------------------

\* the nodes whose output reaches a node of set along the connections edges
RECURSIVE UpstreamOf(_, _)
UpstreamOf(edges, set) ==
  LET more == set \cup {c[1] : c \in {d \in edges : d[2] \in set}}
  IN IF more = set THEN set ELSE UpstreamOf(edges, more)

\* the signal that reaches node n has passed through the lookahead delay
Delayed(s, n) ==
  Node(s.delayNode, "delayNode") \in UpstreamOf(s.edges, {n}) \ {n}

\* C21: in a connected graph the gate's analyser reads the signal from before
\* the lookahead delay and the attenuator receives the delayed signal
LookaheadTopology ==
  (engine = "chainB" /\ \E c \in wb.edges : c[2] = Node(wb.analyser, "analyser")) =>
    /\ Delayed(wb, Node(wb.noiseGate, "noiseGate"))
    /\ ~Delayed(wb, Node(wb.analyser, "analyser"))

\* ---- a session fed the test signal: silence, tone, silence -----------------

\* the test signal, in samples: 2 s of silence, 3 s of tone, 2 s of silence
SilenceSamples == 2 * SampleRate
ToneSamples == 3 * SampleRate
TotalBlocks == (2 * SilenceSamples + ToneSamples) \div BufferLength

\* the band energy of the tone: above every openThreshold calibration can set
ToneEnergy == 2 * DefaultOpenThreshold

\* the samples of block k (1-based) that belong to the tone
ToneSamplesIn(k) ==
  LET first == (k - 1) * BufferLength
      last == k * BufferLength
      from == Max(first, SilenceSamples)
      to == Min(last, SilenceSamples + ToneSamples)
  IN Max(0, to - from)

\* the energies the analyser can report for block k: the tone's for a block
\* inside the tone, none for a block of silence, and for a block the tone
\* covers in part either side of the thresholds
BlockEnergies(k) ==
  IF ToneSamplesIn(k) = 0 THEN {0}
  ELSE IF ToneSamplesIn(k) = BufferLength THEN {ToneEnergy}
  ELSE {0, ToneEnergy}

\* the object after the audioprocess events of one audio block: the
\* calibration processor's and the gate processor's, in either order
AfterBlock(s, e, calFirst) ==
  LET cal(t) == IF t.cal.node # 0 /\ Fires(t, Node(t.cal.node, "calibrationProcessor"))
                THEN calibrationProcessor(t, e) ELSE t
      gate(t) == IF \E g \in t.gateHandlers : Fires(t, Node(g, "gateProcessor"))
                 THEN TrackRun(t, e, processNoiseGate(t, e)) ELSE t
  IN IF calFirst THEN gate(cal(s)) ELSE cal(gate(s))

\* what getAudioMetrics (webrtcFilters.ts:400-407) shows of the gate over the
\* blocks fed: its transitions and the blocks at which they happened
Observe(f, s, t) ==
  LET k == f.blocks + 1
      opened == ~s.gateParams.isOpen /\ t.gateParams.isOpen
      closed == s.gateParams.isOpen /\ ~t.gateParams.isOpen
  IN [blocks |-> k,
      opens |-> IF opened THEN f.opens + 1 ELSE f.opens,
      openedAt |-> IF opened THEN k ELSE f.openedAt,
      closedAt |-> IF closed THEN k ELSE f.closedAt]

\* one audio block of the test signal reaches the graph
AudioBlock(e, calFirst) ==
  /\ engine = "chainB"
  /\ wb.audioContext = "running" /\ wb.sourceNode # 0
  /\ feed.blocks < TotalBlocks
  /\ e \in BlockEnergies(feed.blocks + 1)
  /\ wb' = AfterBlock(wb, e, calFirst)
  /\ feed' = Observe(feed, wb, wb')
  /\ UNCHANGED <<engine, wp, af, wl, srv, nw>>

TraceNext ==
  \/ FirstStart
  \/ \E o \in GumOutcomes : GetUserMedia(o)
  \/ Resume
  \/ \E e \in {0, ToneEnergy}, calFirst \in BOOLEAN : AudioBlock(e, calFirst)

\* one session of the Chain B object fed the test signal from the moment its
\* graph is built
TraceSpec == SessionInit /\ [][TraceNext]_vars

\* C22: a session fed 2 s of silence, 3 s of tone above openThreshold and 2 s
\* of silence shows its gate Closed, then Open, then Closed: the gate opens
\* once, not before the tone, and the Open interval lasts at least 3 s and at
\* most 3 s + holdTime
EndToEndGateTrace ==
  (engine = "chainB" /\ wb.hasScriptProcessor) =>
    /\ feed.blocks * BufferLength <= SilenceSamples => ~wb.gateParams.isOpen
    /\ feed.blocks = TotalBlocks =>
         /\ feed.opens = 1
         /\ ~wb.gateParams.isOpen
         /\ (feed.closedAt - feed.openedAt) * BufferLength >= ToneSamples
         /\ (feed.closedAt - feed.openedAt) * BufferLength * 1000
              <= ToneSamples * 1000 + wb.gateParams.holdTime * SampleRate

\* ---- parameter ranges ------------------------------------------------------

ParamsInit ==
  /\ engine = "params"
  /\ wb = InitB("any", TRUE)
  /\ wp \in {InitP(c) : c \in {"allowed", "throws"}}
  /\ af = InitAF(TRUE)
  /\ wl = InitL("allowed")
  /\ feed = NoFeed
  /\ srv = InitS(NoSettings)
  /\ nw = InitNW

ParamsNext ==
  \/ NextP
  \/ \E params \in RangeUpdates : UpdateFilterParams(params)

\* the object with live filter parameters, updated with any argument
ParamsSpec == ParamsInit /\ [][ParamsNext]_vars

\* C23: in every reachable state the stored cutoff and the cutoff of the
\* live filter lie within [20 Hz, half the sample rate] and the stored and
\* the live Q are > 0
ParameterRange ==
  engine = "params" =>
    /\ wp.filterParams.highPassFreq \in 20..(SampleRate \div 2)
    /\ wp.filterParams.highPassQ > 0
    /\ wp.highPassFilter # 0 =>
         /\ wp.highPassFrequency \in 20..(SampleRate \div 2)
         /\ wp.highPassQ > 0

\* ---- metrics ----------------------------------------------------------------

\* C24: reading the audio level leaves the object as it was: its nodes and
\* connections, its state and its parameters
MetricsAreReadOnly ==
  engine = "audioFilters" => getAudioLevel(af) = af

\* ---- a session whose audio blocks stop arriving ------------------------------

\* one of the few audio blocks that reach the graph before the input stalls
StarvedBlock(e, calFirst) ==
  /\ engine = "chainB"
  /\ wb.audioContext = "running" /\ wb.sourceNode # 0
  /\ feed.blocks < MaxUnderrunBlocks
  /\ Steady(e)
  /\ wb' = AfterBlock(wb, e, calFirst)
  /\ feed' = Observe(feed, wb, wb')
  /\ UNCHANGED <<engine, wp, af, wl, srv, nw>>

UnderrunNext ==
  \/ FirstStart
  \/ \E o \in GumOutcomes : GetUserMedia(o)
  \/ Resume
  \/ \E e \in AmbientLevels, calFirst \in BOOLEAN : StarvedBlock(e, calFirst)

\* one session of the Chain B object that receives fewer blocks than the
\* sampling window needs; every promise that can settle does settle
UnderrunSpec == SessionInit /\ [][UnderrunNext]_vars /\ WF_vars(UnderrunNext)

\* C25: a start that has reached calibration returns the processed stream
\* even when fewer blocks than the sampling window needs ever arrive, and the
\* thresholds are then the defaults
UnderrunStillReturns ==
  (engine = "chainB" /\ wb.pc = "calibrating") ~>
    (wb.result = "processed"
       /\ wb.gateParams.openThreshold = DefaultOpenThreshold
       /\ wb.gateParams.closeThreshold = DefaultCloseThreshold)

\* ---- a session whose capture request may never be answered ------------------

\* the same session; the promises of the audio context settle and the audio
\* callbacks run, but nothing obliges the permission prompt or the device
\* negotiation behind getUserMedia to answer
StallSpec ==
  /\ SessionInit /\ [][UnderrunNext]_vars
  /\ WF_vars(Resume)
  /\ WF_vars(\E e \in AmbientLevels, calFirst \in BOOLEAN : StarvedBlock(e, calFirst))

\* C26: a start that is waiting for the microphone does not stay pending
\* forever: the acquisition is answered or the start fails
StartAlwaysTerminates ==
  (engine = "chainB" /\ wb.pc \in {"gum1", "gum2"}) ~>
    (wb.pc \notin {"gum1", "gum2"})

\* C30: an object with noise levels never has more than one gate-analysis
\* loop scheduled, whatever the sequence of starts and stops
SingleGateLoop ==
  engine = "levels" => Cardinality(wl.loops) <= 1

\* ---- the call-limits server alone --------------------------------------------

ServerInit ==
  /\ engine = "server"
  /\ wb = InitB("any", TRUE)
  /\ wp = InitP("allowed")
  /\ af = InitAF(TRUE)
  /\ wl = InitL("allowed")
  /\ feed = NoFeed
  /\ srv \in {InitS(settings) : settings \in SettingChoices}
  /\ nw = InitNW

\* every request of the call routes, from any user and for any call id, and
\* the passing of time
ServerNext ==
  \/ \E d \in Elapsed : Tick(d)
  \/ \E userId \in Users \cup {""} : CheckLimits(userId)
  \/ \E userId \in Users : CallStart(userId)
  \/ \E userId \in Users, callLogId \in 0..Cardinality(Users) : CheckActiveLimits(userId, callLogId)
  \/ \E userId \in Users, callLogId \in 0..Cardinality(Users) : CallEnd(callLogId, userId)
  \/ \E userId \in Users, callLogId \in 0..Cardinality(Users) : ForceEnd(callLogId, userId)
  \/ \E halfMinutes \in CleanupHalfMinutes : CleanupOrphaned(halfMinutes)

ServerSpec == ServerInit /\ [][ServerNext]_vars

\* C27: a pre-call check with a user id allows the call exactly when the total
\* seconds and the user's seconds recorded today are both below their limits,
\* and names the total limit when the total limit is reached
PreCallLimitCheck ==
  (engine = "server" /\ srv.resp.route = "check-limits" /\ srv.resp.userId # "") =>
    LET userUsed == getDailyUserSeconds(srv, srv.resp.userId, today(srv.now))
        totalUsed == getDailyTotalSeconds(srv, today(srv.now))
    IN /\ srv.resp.userSecondsUsed = userUsed /\ srv.resp.totalSecondsUsed = totalUsed
       /\ (srv.resp.status = 200) <=>
            (totalUsed < dailyTotalLimitSeconds(srv) /\ userUsed < dailyUserLimitSeconds(srv))
       /\ totalUsed >= dailyTotalLimitSeconds(srv) =>
            srv.resp.error = "daily_total_limit_exceeded"
       /\ (totalUsed < dailyTotalLimitSeconds(srv) /\ userUsed >= dailyUserLimitSeconds(srv)) =>
            srv.resp.error = "daily_user_limit_exceeded"

BothLimitsReachedAtCheck ==
  /\ engine = "server" /\ srv.resp.route = "check-limits" /\ srv.resp.userId # ""
  /\ srv.resp.totalSecondsUsed >= dailyTotalLimitSeconds(srv)
  /\ srv.resp.userSecondsUsed >= dailyUserLimitSeconds(srv)
  /\ srv.resp.error = "daily_total_limit_exceeded"

\* C28: the duration and end reason recorded by a force-end for a daily limit
\* stay in the call log: no later request changes the row of such a call
ForceEndedRecordIsFinal ==
  [][\A i \in DOMAIN srv.calls :
       srv.calls[i].endReason \in {<<"user_limit_exceeded">>, <<"system_limit_exceeded">>} =>
         srv'.calls[i] = srv.calls[i]]_vars

\* C29: a call ended by the orphan cleanup had been running for more than the
\* orphan threshold of 30 minutes
OrphanCleanupSparesActiveCalls ==
  \A i \in DOMAIN srv.calls :
    srv.calls[i].endReason = <<"browser_disconnect">> =>
      srv.calls[i].endTime[1] - srv.calls[i].startTime > OrphanThresholdMinutes * 60 * 1000

\* C31: when the first start of an object with noise levels settles after
\* cleanup was called while it was pending, no track it acquired is live, the
\* gate loop is not running and the object is not initialized
StopRacingStart ==
  [][(engine = "levels" /\ wl.starts = 1 /\ wl.stopped
        /\ wl.pc # "idle" /\ wl'.pc = "idle") =>
       (wl'.liveTracks = {} /\ ~wl'.isProcessing /\ ~wl'.isInitialized)]_vars

\* C32: every stream the object with noise levels obtained from getUserMedia
\* and whose tracks are still live is the stream it tracks as originalStream,
\* and after cleanup none is live
NoLeakedMicrophoneStream ==
  engine = "levels" =>
    /\ wl.liveTracks \subseteq {wl.originalStream}
    /\ (wl.stopped /\ wl.pc = "idle") => wl.liveTracks = {}

\* C33: between frames the hold counter of the hysteresis gate is at least 0
\* and below the hold time, and 0 while the gate is Closed; a frame at or
\* below the close threshold with the gate Open adds the frame's duration (the
\* gate closes and the counter restarts when the hold time is reached), and a
\* frame above it with the gate Open clears the counter
HoldCounterInvariant ==
  engine = "chainB" =>
    LET gp == wb.gateParams
    IN /\ 0 <= gp.holdCounter /\ gp.holdCounter < HoldLimit(gp)
       /\ ~gp.isOpen => gp.holdCounter = 0
       /\ (wb.analyser # 0 /\ gp.isOpen) =>
            \A e \in GateEnergies :
              LET after == processNoiseGate(wb, e).gateParams
              IN IF e > gp.closeThreshold
                 THEN after.holdCounter = 0 /\ after.isOpen
                 ELSE IF gp.holdCounter + FrameDuration < HoldLimit(gp)
                 THEN after.holdCounter = gp.holdCounter + FrameDuration /\ after.isOpen
                 ELSE after.holdCounter = 0 /\ ~after.isOpen

HoldCounterRunning ==
  /\ engine = "chainB"
  /\ wb.gateParams.isOpen
  /\ wb.gateParams.holdCounter + FrameDuration >= HoldLimit(wb.gateParams)

\* ---- Chain B started again while its session is active ------------------------

\* the caller calls initializeWebRTCStream on the shared object again although
\* the session it started earlier has not been destroyed
Restart ==
  /\ engine = "chainB"
  /\ wb.starts < MaxStarts
  /\ wb.pc = "idle" /\ wb.result = "processed" /\ ~wb.stopped
  /\ wb' = initializeWebRTCStream(wb)
  /\ UNCHANGED <<engine, wp, af, wl, feed, srv, nw>>

RestartNext == NextB \/ Restart

RestartSpec == SessionInit /\ [][RestartNext]_vars

\* C34: in an initialized Chain B session the target gain of the gate node is
\* 1 exactly when gateParams.isOpen is true and 0 exactly when it is false
GateFlagAndAttenuatorAgree ==
  (engine = "chainB" /\ wb.isInitialized /\ wb.noiseGate # 0) =>
    /\ wb.gateParams.isOpen <=> wb.noiseGateGain = 100
    /\ ~wb.gateParams.isOpen <=> wb.noiseGateGain = 0

\* C35: while calibrated is false the thresholds, the high-pass cutoff and the
\* output trim of Chain B are the defaults, and the only step that changes
\* them on a graph is the step that sets calibrated to true
DefaultsUntilCalibrated ==
  /\ [](engine = "chainB" /\ ~wb.calibration.calibrated =>
          /\ wb.gateParams.openThreshold = DefaultOpenThreshold
          /\ wb.gateParams.closeThreshold = DefaultCloseThreshold
          /\ wb.highPassFilter # 0 => wb.highPassFrequency = DefaultHighPassFrequency
          /\ wb.outputNormalizer # 0 => wb.outputGain = TrimDefault)
  /\ [][(/\ engine = "chainB"
         /\ wb'.highPassFilter = wb.highPassFilter
         /\ <<wb'.gateParams.openThreshold, wb'.gateParams.closeThreshold,
              wb'.highPassFrequency, wb'.outputGain>>
            # <<wb.gateParams.openThreshold, wb.gateParams.closeThreshold,
                wb.highPassFrequency, wb.outputGain>>)
          => (~wb.calibration.calibrated /\ wb'.calibration.calibrated)]_vars

\* C36: once a call log has an end time, no request changes its end time, its
\* recorded duration or its end reason
CallEndedAtMostOnce ==
  [][\A i \in DOMAIN srv.calls :
       srv.calls[i].endTime # <<>> =>
         /\ srv'.calls[i].endTime = srv.calls[i].endTime
         /\ srv'.calls[i].durationSeconds = srv.calls[i].durationSeconds
         /\ srv'.calls[i].endReason = srv.calls[i].endReason]_vars

\* ---- the AudioWorklet noise gate alone -----------------------------------------

WorkletInit ==
  /\ engine = "worklet"
  /\ wb = InitB("any", TRUE)
  /\ wp = InitP("allowed")
  /\ af = InitAF(TRUE)
  /\ wl = InitL("allowed")
  /\ feed = NoFeed
  /\ srv = InitS(NoSettings)
  /\ nw = InitNW

WorkletNext == \E amplitude \in SampleAmplitudes : ProcessSample(amplitude)

WorkletSpec == WorkletInit /\ [][WorkletNext]_vars

\* C37: after a sample above the threshold gateState is 1 for the next 1024
\* samples whatever their amplitude, it is 0 again only once more than 1024
\* samples at or below the threshold have followed one another, and the
\* envelope is within [0, 1] after every sample
WorkletGateHold ==
  engine = "worklet" =>
    /\ 0 <= nw.envelope /\ nw.envelope <= nw.releaseTime
    /\ (nw.loudSeen /\ nw.quiet <= WorkletReleaseTime) => nw.gateState = 1
    /\ (nw.loudSeen /\ nw.gateState = 0) => nw.quiet > WorkletReleaseTime

WorkletGateClosedAfterHold ==
  /\ engine = "worklet"
  /\ nw.loudSeen /\ nw.gateState = 0 /\ nw.quiet = WorkletReleaseTime + 1

====
